---- MODULE Spec2Model ----
(***************************************************************************)
(* Logic-simulator front end: the Names table, the Scanner seen as a       *)
(* source of symbols, and the recursive-descent Parser of src/parse.py     *)
(* with its error recovery.  The parser is modelled as a state machine:    *)
(* every rule function is an action, its program points are labels named   *)
(* after the source line they stand for (net_105 is line 105 of            *)
(* parse_network), and calls push a frame on an explicit stack.            *)
(***************************************************************************)
EXTENDS Integers, Sequences, FiniteSets, TLC

VARIABLES
    input,               \* the lexemes of the definition file, in order
    fpos,                \* Scanner: index of the next lexeme to read
    names_list,          \* Names.names_list
    symbol,              \* Parser.symbol
    error_count,         \* Parser.error_count
    end_of_file,         \* Parser.end_of_file
    unclosed_comment,    \* Parser.unclosed_comment
    error_message_list,  \* Parser.error_message_list
    pc,                  \* program point of the running rule function
    loc,                 \* its local variables
    stack,               \* frames of the callers (return label, locals)
    ret,                 \* value returned by the last finished call
    result,              \* value returned by parse_network
    calls,               \* history: collaborator calls, in order
    error_calls,         \* history: number of calls of error()
    semantic_calls,      \* history: number of calls of semantic_error()
    sem_budget,          \* collaborator failures still allowed in this run
    plan,                \* how the input was built (base sentence, fault)
    error_code_count,    \* Names.error_code_count
    names_log,           \* history: the operations made on a Names table
    scanner,             \* the Scanner object: its file and its fields
    scanned,             \* history: the symbols get_symbol has returned
    last_shown           \* history: the last call of show_error

\* the variables of the parser and of its scanner
parser_vars == <<input, fpos, symbol, error_count, end_of_file,
                 unclosed_comment, error_message_list, pc, loc, stack, ret, result,
                 calls, error_calls, semantic_calls, sem_budget, plan>>

\* the variables of the scanner run character by character
scanner_vars == <<scanner, scanned, last_shown>>

vars == <<parser_vars, names_list, error_code_count, names_log, scanner_vars>>

(***************************************************************************)
(* Symbol types and reserved ids (Scanner.__init__)                        *)
(***************************************************************************)
PUNCTUATION == 0
KEYWORD == 1
NUMBER == 2
NAME == 3
EOF == 4
INVALID_CHAR == 5
UNCLOSED == 6

\* Symbol.id of a symbol without id (Python None): no int compares equal to it
None == -1

keywords == <<"CIRCUIT", "DEVICES", "CONNECTIONS", "MONITORS", "id", "kind", "qual">>
puncs == <<":", "[", "]", "{", "}", ";", ",", ".">>

SeqRange(s) == {s[i] : i \in 1..Len(s)}

(***************************************************************************)
(* Names                                                                   *)
(***************************************************************************)
\* a query that counts ids from 1
query_from_one(nl, name_string) ==
    IF \E i \in 1..Len(nl) : nl[i] = name_string
    THEN CHOOSE i \in 1..Len(nl) :
              /\ nl[i] = name_string
              /\ \A j \in 1..(i - 1) : nl[j] # name_string
    ELSE None

\* Names.query: index of the first entry equal to name_string, else None
query(nl, name_string) ==
    IF \E i \in 1..Len(nl) : nl[i] = name_string
    THEN (CHOOSE i \in 1..Len(nl) :
              /\ nl[i] = name_string
              /\ \A j \in 1..(i - 1) : nl[j] # name_string) - 1
    ELSE None

\* a lookup that adds the string whether or not the table has it
lookup1_always_append(nl, name) == [names |-> Append(nl, name), id |-> Len(nl)]

\* a lookup that puts a new string in front of the table
lookup1_prepend(nl, name) ==
    IF name \in SeqRange(nl)
    THEN [names |-> nl, id |-> query(nl, name)]
    ELSE [names |-> <<name>> \o nl, id |-> 0]

\* Names.lookup for one string: the table afterwards and the id
lookup1(nl, name) ==
    IF name \in SeqRange(nl)
    THEN [names |-> nl, id |-> query(nl, name)]
    ELSE [names |-> Append(nl, name), id |-> Len(nl)]

\* values that are not strings, as they are written (the float of
\* test_lookup_gives_errors)
NotStrings == {"4.44"}

\* isinstance(name, str)
isinstance_str(name) == name \notin NotStrings

\* a lookup that checks its whole list before it adds a string
RECURSIVE lookup_atomic(_, _)
lookup_atomic(nl, name_string_list) ==
    IF \E i \in DOMAIN name_string_list : ~isinstance_str(name_string_list[i])
    THEN [names |-> nl, ids |-> <<>>, exc |-> "TypeError"]
    ELSE IF name_string_list = <<>>
    THEN [names |-> nl, ids |-> <<>>, exc |-> "ok"]
    ELSE LET first == lookup1(nl, Head(name_string_list))
             rest == lookup_atomic(first.names, Tail(name_string_list))
         IN [names |-> rest.names, ids |-> <<first.id>> \o rest.ids, exc |-> "ok"]

\* Names.lookup: left to right over the list; an element that is not a
\* string raises TypeError, with the table as the elements before it left it
\* and no list of ids returned
RECURSIVE lookup(_, _)
lookup(nl, name_string_list) ==
    IF name_string_list = <<>>
    THEN [names |-> nl, ids |-> <<>>, exc |-> "ok"]
    ELSE IF ~isinstance_str(Head(name_string_list))
    THEN [names |-> nl, ids |-> <<>>, exc |-> "TypeError"]
    ELSE LET first == lookup1(nl, Head(name_string_list))
             rest == lookup(first.names, Tail(name_string_list))
         IN [names |-> rest.names,
             ids |-> IF rest.exc = "ok" THEN <<first.id>> \o rest.ids ELSE <<>>,
             exc |-> rest.exc]

\* a get_name_string that counts ids from the end of the table
get_name_string_from_end(nl, name_id) ==
    IF name_id = None THEN [exc |-> "TypeError", str |-> ""]
    ELSE IF name_id < 0 THEN [exc |-> "ValueError", str |-> ""]
    ELSE IF name_id > Len(nl) THEN [exc |-> "ValueError", str |-> ""]
    ELSE IF name_id = Len(nl) THEN [exc |-> "IndexError", str |-> ""]
    ELSE [exc |-> "ok", str |-> nl[Len(nl) - name_id]]

\* Names.get_name_string: "ok" with the string, or the exception it raises
get_name_string(nl, name_id) ==
    IF name_id = None THEN [exc |-> "TypeError", str |-> ""]
    ELSE IF name_id < 0 THEN [exc |-> "ValueError", str |-> ""]
    ELSE IF name_id > Len(nl) THEN [exc |-> "ValueError", str |-> ""]
    ELSE IF name_id = Len(nl) THEN [exc |-> "IndexError", str |-> ""]
    ELSE [exc |-> "ok", str |-> nl[name_id + 1]]

\* error codes that start at 0 in every call
unique_error_codes_from_zero(count, num_error_codes) ==
    [count |-> count + num_error_codes,
     codes |-> [k \in 1..num_error_codes |-> k - 1]]

\* error codes that start one above the counter
unique_error_codes_from_one(count, num_error_codes) ==
    [count |-> count + num_error_codes,
     codes |-> [k \in 1..num_error_codes |-> count + k]]

\* Names.unique_error_codes: the counter afterwards and the codes returned,
\* range(error_code_count - num_error_codes, error_code_count)
unique_error_codes(count, num_error_codes) ==
    LET after == count + num_error_codes
    IN [count |-> after,
        codes |-> [k \in 1..num_error_codes |-> after - num_error_codes + k - 1]]

\* the table after Scanner.__init__: keywords, then punctuation
InitNames == lookup(lookup(<<>>, keywords).names, puncs).names

CIRCUIT_ID == lookup(<<>>, keywords).ids[1]
DEVICES_ID == lookup(<<>>, keywords).ids[2]
CONNECTIONS_ID == lookup(<<>>, keywords).ids[3]
MONITOR_ID == lookup(<<>>, keywords).ids[4]
ID_KEYWORD_ID == lookup(<<>>, keywords).ids[5]
KIND_KEYWORD_ID == lookup(<<>>, keywords).ids[6]
QUAL_KEYWORD_ID == lookup(<<>>, keywords).ids[7]
COLON == lookup(lookup(<<>>, keywords).names, puncs).ids[1]
OPEN_SQUARE == lookup(lookup(<<>>, keywords).names, puncs).ids[2]
CLOSE_SQUARE == lookup(lookup(<<>>, keywords).names, puncs).ids[3]
OPEN_CURLY == lookup(lookup(<<>>, keywords).names, puncs).ids[4]
CLOSE_CURLY == lookup(lookup(<<>>, keywords).names, puncs).ids[5]
SEMICOLON == lookup(lookup(<<>>, keywords).names, puncs).ids[6]
COMMA == lookup(lookup(<<>>, keywords).names, puncs).ids[7]
DOT == lookup(lookup(<<>>, keywords).names, puncs).ids[8]

\* no file is open in the character-level scanner
NoScanner == [file |-> <<>>, tell |-> 0, current_char |-> " ", linestart |-> 1,
              prev_linestart |-> 1, linecount |-> 1]
ScannerIdle == scanner = NoScanner /\ scanned = <<>> /\ last_shown = <<>>

(***************************************************************************)
(* Scanner, at the level of lexemes.  A lexeme is the text of one symbol:  *)
(* a keyword, a punctuation character, a run of digits, a name, "$" for a  *)
(* lexeme with an invalid character, "#" for a comment that is opened and *)
(* never closed (the rest of the file is inside it).                       *)
(***************************************************************************)
\* int(n) of Scanner._next_number, for the numerals the inputs use
NumberVal == [n \in {"0", "1", "12", "99"} |->
                 CASE n = "0" -> 0 [] n = "1" -> 1 [] n = "12" -> 12 [] n = "99" -> 99]

InvalidLexeme == "$"
UnclosedLexeme == "#"

Sym(type, id, pos) == [type |-> type, id |-> id, pos |-> pos]

\* Scanner.get_symbol: the symbol, the file position and the table afterwards
get_symbol(inp, fp, nl) ==
    IF fp > Len(inp)
    THEN [sym |-> Sym(EOF, None, Len(inp) + 1), fpos |-> fp, names |-> nl]
    ELSE LET lex == inp[fp] IN
         IF lex = UnclosedLexeme
         THEN [sym |-> Sym(UNCLOSED, None, fp), fpos |-> Len(inp) + 1, names |-> nl]
         ELSE IF lex = InvalidLexeme
         THEN [sym |-> Sym(INVALID_CHAR, None, fp), fpos |-> fp + 1, names |-> nl]
         ELSE IF lex \in DOMAIN NumberVal
         THEN [sym |-> Sym(NUMBER, NumberVal[lex], fp), fpos |-> fp + 1, names |-> nl]
         ELSE IF lex \in SeqRange(puncs)
         THEN [sym |-> Sym(PUNCTUATION, query(nl, lex), fp), fpos |-> fp + 1, names |-> nl]
         ELSE LET l == lookup(nl, <<lex>>) IN
              [sym |-> Sym(IF lex \in SeqRange(keywords) THEN KEYWORD ELSE NAME,
                           l.ids[1], fp),
               fpos |-> fp + 1, names |-> l.names]

\* Scanner.show_error: the caret text, the line and the column of a symbol
\* (one lexeme per column of a single line)
show_error(sym) == [caret |-> <<"^", sym.pos>>, line |-> 1, col |-> sym.pos]

(***************************************************************************)
(* The state as one record, so that a step is a function of the state      *)
(***************************************************************************)
S == [input |-> input, fpos |-> fpos, names_list |-> names_list,
      symbol |-> symbol, error_count |-> error_count,
      end_of_file |-> end_of_file, unclosed_comment |-> unclosed_comment,
      error_message_list |-> error_message_list, pc |-> pc, loc |-> loc,
      stack |-> stack, ret |-> ret, result |-> result, calls |-> calls,
      error_calls |-> error_calls, semantic_calls |-> semantic_calls,
      sem_budget |-> sem_budget, plan |-> plan]

Commit(t) ==
    /\ input' = t.input
    /\ fpos' = t.fpos
    /\ names_list' = t.names_list
    /\ symbol' = t.symbol
    /\ error_count' = t.error_count
    /\ end_of_file' = t.end_of_file
    /\ unclosed_comment' = t.unclosed_comment
    /\ error_message_list' = t.error_message_list
    /\ pc' = t.pc
    /\ loc' = t.loc
    /\ stack' = t.stack
    /\ ret' = t.ret
    /\ result' = t.result
    /\ calls' = t.calls
    /\ error_calls' = t.error_calls
    /\ semantic_calls' = t.semantic_calls
    /\ sem_budget' = t.sem_budget
    /\ plan' = t.plan
    /\ UNCHANGED <<error_code_count, names_log, scanner_vars>>

Goto(s, label) == [s EXCEPT !.pc = label]

\* an uncaught exception leaves parse_network without a return value
Raise(s, exc) == [s EXCEPT !.pc = "raised", !.ret = [exception |-> exc]]

\* call of a rule function: the caller resumes at cont with its locals
Call(s, entry, args, cont) ==
    [s EXCEPT !.stack = <<[pc |-> cont, loc |-> s.loc]>> \o s.stack,
              !.pc = entry, !.loc = args]

\* the value of a function that returns nothing
ReturnsNone == [none |-> TRUE]

Return(s, value) ==
    [s EXCEPT !.pc = Head(s.stack).pc, !.loc = Head(s.stack).loc,
              !.stack = Tail(s.stack), !.ret = value]

\* Parser.error is entered with its message and its expected-next list
\* (entry remembers the symbol error() was entered at)
CallError(s, msg, expect_next_list, cont) ==
    Call(s, "err_955", [msg |-> msg, expect_next_list |-> expect_next_list,
                        entry |-> s.symbol.pos], cont)

UnclosedMsg == "Unclosed Comment Found - did you want to use '/' instead of '#' for your comment?"

\* Parser.set_next: take the next symbol; an unclosed comment is reported
\* through error() with an empty expected-next list, after which the caller
\* resumes at cont
SetNext(s, cont) ==
    LET g == get_symbol(s.input, s.fpos, s.names_list)
        t == [s EXCEPT !.symbol = g.sym, !.fpos = g.fpos, !.names_list = g.names]
    IN IF g.sym.type = UNCLOSED
       THEN CallError([t EXCEPT !.unclosed_comment = TRUE], UnclosedMsg, {}, cont)
       ELSE Goto(t, cont)

\* Parser.get_symbol_string: only TypeError is caught
get_symbol_string(s) ==
    LET r == get_name_string(s.names_list, s.symbol.id) IN
    IF r.exc = "TypeError" THEN [exc |-> "ok", str |-> "NONE"] ELSE r

\* an end-of-file test that never answers yes
_is_eof_never(s) == FALSE

_is_eof(s) == s.symbol.type = EOF

\* an error() that does not notice it was entered at the end of the file
error_at_eof_never(s) == FALSE

\* Parser.error, line 972: the current symbol is the end of the file
error_at_eof(s) == s.symbol.type = EOF

Diag(kind, msg, pos, received) ==
    [kind |-> kind, msg |-> msg, pos |-> pos, received |-> received]

EofNote == "Reached end of file without finding another semicolon - cannot perform error recovery"

\* a test that lets error() resume at any symbol behind a ';'
expected_next_any(sym, expect_next_list) == TRUE

\* Parser.error, lines 1019-1022: the symbol behind a ';' is one to resume at
expected_next(sym, expect_next_list) ==
    sym.id \in expect_next_list \/ sym.type \in expect_next_list

\* Parser.error, lines 955-999 (count, render, record) and 1001-1028 (skip
\* to a ';' followed by an expected symbol)
error_step(s) ==
    CASE s.pc = "err_955" ->
           LET c == [s EXCEPT !.error_count = @ + 1, !.error_calls = @ + 1]
               shown == show_error(s.symbol)
               gss == get_symbol_string(s)
           IN IF error_at_eof(s)
              THEN Return([c EXCEPT !.error_message_list =
                                Append(@, Diag("ERROR", s.loc.msg, shown.col, "")),
                              !.end_of_file = TRUE], ReturnsNone)
              ELSE IF gss.exc # "ok" THEN Raise([c EXCEPT !.end_of_file = FALSE], gss.exc)
              ELSE Goto([c EXCEPT !.end_of_file = FALSE,
                                  !.error_message_list =
                                      @ \o <<Diag("ERROR", s.loc.msg, shown.col,
                                                  IF gss.str = "NONE" THEN "" ELSE gss.str),
                                             Diag("caret", "", shown.col, "")>>],
                        "err_1002")
      [] s.pc = "err_1002" ->
           IF s.symbol.id # SEMICOLON THEN SetNext(s, "err_1004") ELSE SetNext(s, "err_1015")
      [] s.pc = "err_1004" ->
           IF get_symbol_string(s).exc # "ok" THEN Raise(s, get_symbol_string(s).exc)
           ELSE IF _is_eof(s)
           THEN SetNext([s EXCEPT !.error_message_list = Append(@, Diag("note", EofNote, 0, "")),
                                  !.end_of_file = TRUE], "err_1015")
           ELSE Goto(s, "err_1002")
      [] s.pc = "err_1015" ->
           IF get_symbol_string(s).exc # "ok" THEN Raise(s, get_symbol_string(s).exc)
           ELSE IF _is_eof(s) THEN Return(s, ReturnsNone)
           ELSE IF expected_next(s.symbol, s.loc.expect_next_list)
           THEN Return(s, ReturnsNone)
           ELSE Goto(s, "err_1002")

\* a semantic_error that takes one from error_count
semantic_error_decrements(s, msg) ==
    [s EXCEPT !.error_message_list =
                  Append(@, Diag("ERROR", msg, show_error(s.symbol).col, "")),
              !.error_count = @ - 1,
              !.semantic_calls = @ + 1]

\* Parser.semantic_error: render, record, count
semantic_error(s, msg) ==
    [s EXCEPT !.error_message_list =
                  Append(@, Diag("ERROR", msg, show_error(s.symbol).col, "")),
              !.error_count = @ + 1,
              !.semantic_calls = @ + 1]

(***************************************************************************)
(* Collaborators: the codes make_device, make_connection and make_monitor  *)
(* may return.  Which one comes back is the environment's choice.          *)
(***************************************************************************)
DeviceCodes == {"NO_ERROR", "NO_QUALIFIER", "INVALID_QUALIFIER",
                "QUALIFIER_PRESENT", "BAD_DEVICE", "DEVICE_PRESENT"}
NetworkCodes == {"NO_ERROR", "DEVICE_ABSENT", "INPUT_CONNECTED",
                 "INPUT_TO_INPUT", "PORT_ABSENT", "OUTPUT_TO_OUTPUT"}
MonitorCodes == {"NO_ERROR", "DEVICE_ABSENT", "NOT_OUTPUT", "MONITOR_PRESENT"}

\* the codes a build call may return at this point: a failure needs budget
Returned(s, label, codes) ==
    IF s.pc = label /\ s.error_count - s.loc.previous_errors = 0 /\ s.sem_budget > 0
    THEN codes
    ELSE {"NO_ERROR"}

\* history of one collaborator call: what was built, for the unit starting
\* where, what came back, and how the unit stood when the call was made
Built(s, fn, args, code) ==
    [s EXCEPT !.calls = Append(@, [fn |-> fn, args |-> args,
                                   unit |-> s.loc.unit, code |-> code,
                                   count_delta |-> s.error_count - s.loc.previous_errors,
                                   unit_errors |-> s.error_calls - s.loc.entry_error_calls]),
              !.sem_budget = IF code = "NO_ERROR" THEN @ ELSE @ - 1]

(***************************************************************************)
(* Parser.parse_network                                                    *)
(***************************************************************************)
NetworkLabels == {"net_86", "net_88", "net_97", "net_105", "net_119", "net_133",
                  "net_139", "net_154", "net_160", "net_174", "net_177"}

\* a return that tolerates one error
parse_network_return_lenient(s) == s.error_count <= 1

\* lines 182-185
parse_network_return(s) == s.error_count = 0

\* an empty-file test that is never met
is_empty_file_never(s) == FALSE

\* lines 88-89: the first symbol is EOF and no comment was left open
is_empty_file(s) == s.symbol.type = EOF /\ ~s.unclosed_comment

\* a MONITORS list taken only after the CONNECTIONS list
monitors_allowed_after_connections(s) == s.loc.devices_done /\ s.loc.connections_done

\* line 153: a MONITORS list is parsed once the devices are done
monitors_allowed(s) == s.loc.devices_done

parse_network_step(s) ==
    CASE s.pc = "net_86" -> SetNext(s, "net_88")
      [] s.pc = "net_88" ->
           IF is_empty_file(s)
           THEN CallError(s, "Empty definition file was loaded.", {EOF}, "net_97")
           ELSE Goto(s, "net_105")
      [] s.pc = "net_97" ->
           [s EXCEPT !.error_count = @ + 1, !.result = <<FALSE>>, !.pc = "done"]
      [] s.pc = "net_105" ->
           IF s.symbol.id = DEVICES_ID
           THEN IF s.loc.devices_done
                THEN CallError(s, "Multiple device lists found.",
                               {CONNECTIONS_ID, MONITOR_ID, EOF}, "net_105")
                ELSE Call(s, "dl_189", [parsing_devices |-> FALSE], "net_119")
           ELSE IF s.symbol.id = CONNECTIONS_ID
           THEN IF s.loc.connections_done
                THEN CallError(s, "Multiple connections lists found.",
                               {MONITOR_ID, EOF}, "net_105")
                ELSE IF s.loc.devices_done
                THEN Call(s, "cl_552", [previous_errors |-> s.error_count,
                                        parsing_connections |-> FALSE], "net_133")
                ELSE CallError(s, "can't parse connections if not done devices",
                               {DEVICES_ID}, "net_139")
           ELSE IF s.symbol.id = MONITOR_ID
           THEN IF s.loc.monitors_done
                THEN CallError(s, "Multiple monitors lists found.",
                               {CONNECTIONS_ID, EOF}, "net_105")
                ELSE IF monitors_allowed(s)
                THEN Call(s, "ml_787", [previous_errors |-> s.error_count,
                                        parsing_monitors |-> FALSE], "net_154")
                ELSE CallError(s, "can't parse monitors if not done devices",
                               {DEVICES_ID}, "net_160")
           ELSE IF _is_eof(s) THEN Goto(s, "net_177")
           ELSE CallError(s, "not DEVICES, CONNECTIONS, MONITORS nor EOF",
                          {DEVICES_ID, CONNECTIONS_ID, MONITOR_ID, EOF}, "net_174")
      [] s.pc = "net_119" -> Goto([s EXCEPT !.loc.devices_done = TRUE], "net_105")
      [] s.pc = "net_133" -> Goto([s EXCEPT !.loc.connections_done = TRUE], "net_105")
      [] s.pc = "net_154" -> Goto([s EXCEPT !.loc.monitors_done = TRUE], "net_105")
      [] s.pc \in {"net_139", "net_160", "net_174"} ->
           IF _is_eof(s) THEN Goto(s, "net_177") ELSE Goto(s, "net_105")
      [] s.pc = "net_177" ->
           [s EXCEPT !.error_message_list =
                         Append(@, Diag("final", "error(s) found", s.error_count, "")),
                     !.result = <<parse_network_return(s)>>,
                     !.pc = "done"]

(***************************************************************************)
(* Parser.parse_devices_list                                               *)
(***************************************************************************)
DevicesListLabels == {"dl_189", "dl_191", "dl_200", "dl_209", "dl_252", "dl_264",
                      "dl_280", "dl_291", "dl_293", "dl_300"}

IsSection(s) == s.symbol.id = MONITOR_ID \/ s.symbol.id = CONNECTIONS_ID

parse_devices_list_step(s) ==
    CASE s.pc = "dl_189" -> SetNext(s, "dl_191")
      [] s.pc = "dl_191" ->
           IF s.symbol.id # OPEN_SQUARE
           THEN CallError(s, "expected [", {CONNECTIONS_ID, MONITOR_ID}, "dl_293")
           ELSE SetNext([s EXCEPT !.loc.parsing_devices = TRUE], "dl_200")
      [] s.pc = "dl_200" ->
           IF ~s.loc.parsing_devices \/ s.end_of_file \/ s.symbol.id = CLOSE_SQUARE
           THEN Goto(s, "dl_264")
           ELSE Call(s, "dev_312", [previous_errors |-> s.error_count,
                                    unit |-> s.symbol.pos,
                                    entry_error_calls |-> s.error_calls,
                                    missing_device_semicolon |-> FALSE,
                                    device_name |-> "", device_kind_string |-> "",
                                    device_kind_id |-> None, device_qual |-> None],
                     "dl_209")
      [] s.pc = "dl_209" ->
           IF s.ret.missing_device_semicolon /\ s.end_of_file THEN Goto(s, "dl_264")
           ELSE IF s.symbol.id = OPEN_CURLY
           THEN Goto([s EXCEPT !.loc.parsing_devices = TRUE], "dl_200")
           ELSE IF s.symbol.id = CLOSE_SQUARE
           THEN Goto([s EXCEPT !.loc.parsing_devices = FALSE], "dl_200")
           ELSE IF IsSection(s) THEN Goto(s, "dl_264")
           ELSE IF s.symbol.type = INVALID_CHAR
           THEN CallError(s, "invalid character encountered", {OPEN_CURLY}, "dl_200")
           ELSE IF s.symbol.type = EOF THEN Return(s, ReturnsNone)
           ELSE IF get_symbol_string(s).exc # "ok"
           THEN Raise(s, get_symbol_string(s).exc)
           ELSE CallError(s, "Invalid input to a DEVICES list. Devices should start with '{', or the list should end with ']' ",
                          {OPEN_CURLY, CLOSE_SQUARE, CONNECTIONS_ID, MONITOR_ID, EOF},
                          "dl_252")
      [] s.pc = "dl_252" ->
           IF s.symbol.id = CLOSE_SQUARE THEN Goto(s, "dl_264")
           ELSE IF s.symbol.id = OPEN_CURLY THEN Goto(s, "dl_200")
           ELSE IF s.end_of_file THEN Return(s, ReturnsNone)
           ELSE IF IsSection(s) THEN Goto(s, "dl_264")
           ELSE Goto(s, "dl_200")
      [] s.pc = "dl_264" ->
           IF IsSection(s) THEN Goto(s, "dl_293")
           ELSE IF s.symbol.id # CLOSE_SQUARE /\ ~_is_eof(s)
           THEN CallError(s, "expected ]", {CONNECTIONS_ID, MONITOR_ID}, "dl_293")
           ELSE SetNext(s, "dl_280")
      [] s.pc = "dl_280" ->
           IF s.symbol.id # SEMICOLON
           THEN CallError(s, "expected ;", {MONITOR_ID, CONNECTIONS_ID}, "dl_293")
           ELSE IF s.error_count # 0 THEN Goto(s, "dl_293")
           ELSE SetNext(s, "dl_291")
      [] s.pc = "dl_291" -> Return(s, [value |-> TRUE])
      [] s.pc = "dl_293" ->
           IF ~IsSection(s) THEN SetNext(s, "dl_300") ELSE Goto(s, "dl_300")
      [] s.pc = "dl_300" ->
           IF s.error_count # 0 THEN Return(s, [value |-> FALSE]) ELSE Return(s, ReturnsNone)

(***************************************************************************)
(* Parser.parse_device and its three clauses                               *)
(***************************************************************************)
DeviceLabels == {"dev_312", "dev_319", "dev_321", "dev_333", "dev_341", "dev_349",
                 "dev_356", "dev_366", "dev_371", "dev_416"}

\* the codes of make_device that parse_device turns into a semantic error
DeviceHandled == {"NO_QUALIFIER", "INVALID_QUALIFIER", "QUALIFIER_PRESENT", "BAD_DEVICE"}

\* an expected-next list that also takes the '}' of a device
device_end_expected_closing == {OPEN_CURLY, CLOSE_CURLY, CONNECTIONS_ID, MONITOR_ID}

\* lines 358-364: what may follow the ';' that recovery stops at when the ';'
\* after a device's '}' is missing
device_end_expected == {OPEN_CURLY, CONNECTIONS_ID, MONITOR_ID}

\* a gate that is always open
device_gate_open(s) == TRUE

\* lines 371-414: build only when the device added no error
device_gate(s) == s.error_count - s.loc.previous_errors = 0

parse_device_step(s, code) ==
    CASE s.pc = "dev_312" ->
           IF s.symbol.id # OPEN_CURLY
           THEN CallError(s, "expected {", {OPEN_CURLY, CLOSE_CURLY}, "dev_416")
           ELSE SetNext(s, "dev_319")
      [] s.pc = "dev_319" ->
           Call(s, "id_423", [missing_semicolon |-> FALSE, device_name |-> ""], "dev_321")
      [] s.pc = "dev_321" ->
           IF s.ret.missing_semicolon THEN Goto(s, "dev_416")
           ELSE Call([s EXCEPT !.loc.device_name = s.ret.device_name], "kind_470",
                     [missing_semicolon |-> FALSE, device_kind_string |-> "",
                      device_kind_id |-> None], "dev_333")
      [] s.pc = "dev_333" ->
           LET t == [s EXCEPT !.loc.device_kind_string = s.ret.device_kind_string,
                              !.loc.device_kind_id = s.ret.device_kind_id]
           IN IF s.ret.missing_semicolon THEN Goto(t, "dev_416")
              ELSE IF s.symbol.id = QUAL_KEYWORD_ID
              THEN Call(t, "qual_516", [missing_semicolon |-> FALSE, device_qual |-> None],
                        "dev_341")
              ELSE Goto([t EXCEPT !.loc.device_qual = None], "dev_349")
      [] s.pc = "dev_341" ->
           IF s.ret.missing_semicolon THEN Goto(s, "dev_416")
           ELSE Goto([s EXCEPT !.loc.device_qual = s.ret.device_qual], "dev_349")
      [] s.pc = "dev_349" ->
           IF s.symbol.id # CLOSE_CURLY
           THEN CallError(s, "expected }", {OPEN_CURLY, CLOSE_CURLY}, "dev_416")
           ELSE SetNext(s, "dev_356")
      [] s.pc = "dev_356" ->
           IF s.symbol.id # SEMICOLON
           THEN CallError(s, "expected ;", device_end_expected, "dev_366")
           ELSE Goto(s, "dev_371")
      [] s.pc = "dev_366" ->
           Goto([s EXCEPT !.loc.missing_device_semicolon = TRUE], "dev_416")
      [] s.pc = "dev_371" ->
           IF device_gate(s)
           THEN LET b == Built(s, "make_device",
                               <<query(s.names_list, s.loc.device_name),
                                 s.loc.device_kind_id, s.loc.device_qual>>, code)
                IN IF code \in DeviceHandled
                   THEN SetNext(semantic_error(b, code), "dev_416")
                   ELSE SetNext(b, "dev_416")
           ELSE SetNext(s, "dev_416")
      [] s.pc = "dev_416" -> Return(s, [missing_device_semicolon |-> s.loc.missing_device_semicolon])

DeviceIdLabels == {"id_423", "id_430", "id_435", "id_451", "id_453", "id_460"}

parse_device_id_step(s) ==
    CASE s.pc = "id_423" ->
           IF s.symbol.id # ID_KEYWORD_ID
           THEN CallError(s, "expected id keyword here", {KIND_KEYWORD_ID}, "id_460")
           ELSE SetNext(s, "id_430")
      [] s.pc = "id_430" ->
           IF s.symbol.id # COLON
           THEN CallError(s, "expected : here", {KIND_KEYWORD_ID}, "id_460")
           ELSE SetNext(s, "id_435")
      [] s.pc = "id_435" ->
           IF s.symbol.type # NAME
           THEN IF s.symbol.type = KEYWORD
                THEN CallError(s, "Invalid name provided - a keyword cannot be used as a device name",
                               {KIND_KEYWORD_ID}, "id_460")
                ELSE CallError(s, "Invalid name provided - a device name should be alphanumeric",
                               {KIND_KEYWORD_ID}, "id_460")
           ELSE SetNext([s EXCEPT !.loc.device_name = get_symbol_string(s).str], "id_451")
      [] s.pc = "id_451" ->
           IF s.symbol.id # SEMICOLON
           THEN CallError(s, "Missing semicolon", {OPEN_CURLY}, "id_453")
           ELSE SetNext(s, "id_460")
      [] s.pc = "id_453" ->
           IF get_symbol_string(s).exc # "ok" THEN Raise(s, get_symbol_string(s).exc)
           ELSE Goto([s EXCEPT !.loc.missing_semicolon = TRUE], "id_460")
      [] s.pc = "id_460" ->
           IF get_symbol_string(s).exc # "ok" THEN Raise(s, get_symbol_string(s).exc)
           ELSE Return(s, [missing_semicolon |-> s.loc.missing_semicolon,
                           device_name |-> s.loc.device_name])

DeviceKindLabels == {"kind_470", "kind_478", "kind_486", "kind_498", "kind_503", "kind_509"}

parse_device_kind_step(s) ==
    CASE s.pc = "kind_470" ->
           IF s.symbol.id # KIND_KEYWORD_ID
           THEN CallError(s, "expected kind keyword here",
                          {QUAL_KEYWORD_ID, CLOSE_CURLY}, "kind_509")
           ELSE SetNext(s, "kind_478")
      [] s.pc = "kind_478" ->
           IF s.symbol.id # COLON
           THEN CallError(s, "expected : here", {QUAL_KEYWORD_ID, CLOSE_CURLY}, "kind_509")
           ELSE SetNext(s, "kind_486")
      [] s.pc = "kind_486" ->
           IF s.symbol.type # NAME
           THEN CallError(s, "Device type must be at least alphanumeric",
                          {QUAL_KEYWORD_ID, CLOSE_CURLY}, "kind_509")
           ELSE LET str == get_symbol_string(s).str
                    l == lookup(s.names_list, <<str>>)
                IN SetNext([s EXCEPT !.loc.device_kind_string = str,
                                     !.loc.device_kind_id = l.ids[1],
                                     !.names_list = l.names], "kind_498")
      [] s.pc = "kind_498" ->
           IF s.symbol.id # SEMICOLON
           THEN CallError(s, "missing semicolon", {OPEN_CURLY, CLOSE_SQUARE}, "kind_503")
           ELSE SetNext(s, "kind_509")
      [] s.pc = "kind_503" -> Goto([s EXCEPT !.loc.missing_semicolon = TRUE], "kind_509")
      [] s.pc = "kind_509" ->
           Return(s, [missing_semicolon |-> s.loc.missing_semicolon,
                      device_kind_string |-> s.loc.device_kind_string,
                      device_kind_id |-> s.loc.device_kind_id])

DeviceQualLabels == {"qual_516", "qual_523", "qual_528", "qual_537", "qual_542", "qual_548"}

parse_device_qual_step(s) ==
    CASE s.pc = "qual_516" ->
           IF s.symbol.id # QUAL_KEYWORD_ID
           THEN CallError(s, "expected qual keyword here", {CLOSE_CURLY}, "qual_548")
           ELSE SetNext(s, "qual_523")
      [] s.pc = "qual_523" ->
           IF s.symbol.id # COLON
           THEN CallError(s, "expected : here", {CLOSE_CURLY}, "qual_548")
           ELSE SetNext(s, "qual_528")
      [] s.pc = "qual_528" ->
           IF s.symbol.type # NUMBER
           THEN CallError(s, "unsupported qualifier input", {CLOSE_CURLY}, "qual_548")
           ELSE SetNext([s EXCEPT !.loc.device_qual = s.symbol.id], "qual_537")
      [] s.pc = "qual_537" ->
           IF s.symbol.id # SEMICOLON
           THEN CallError(s, "missing semicolon", {OPEN_CURLY, CLOSE_SQUARE}, "qual_542")
           ELSE SetNext(s, "qual_548")
      [] s.pc = "qual_542" -> Goto([s EXCEPT !.loc.missing_semicolon = TRUE], "qual_548")
      [] s.pc = "qual_548" ->
           Return(s, [missing_semicolon |-> s.loc.missing_semicolon,
                      device_qual |-> s.loc.device_qual])

(***************************************************************************)
(* Parser.parse_connections_list, parse_connection, parse_signal           *)
(***************************************************************************)
ConnectionsListLabels == {"cl_552", "cl_554", "cl_565", "cl_574", "cl_607", "cl_617",
                          "cl_632", "cl_643", "cl_645", "cl_650"}

\* the locals of parse_signal at its entry; also a signal not yet parsed
SignalArgs == [missing_end_marker |-> FALSE, signalName |-> <<>>,
               deviceId |-> None, portId |-> None]

UnitArgs(s) == [previous_errors |-> s.error_count, unit |-> s.symbol.pos,
                entry_error_calls |-> s.error_calls,
                missing |-> FALSE, left |-> SignalArgs, right |-> SignalArgs]

parse_connections_list_step(s) ==
    CASE s.pc = "cl_552" -> SetNext(s, "cl_554")
      [] s.pc = "cl_554" ->
           IF s.end_of_file THEN Goto(s, "cl_645")
           ELSE IF s.symbol.id # OPEN_SQUARE
           THEN CallError(s, "expected [", {MONITOR_ID, EOF}, "cl_645")
           ELSE SetNext([s EXCEPT !.loc.parsing_connections = TRUE], "cl_565")
      [] s.pc = "cl_565" ->
           IF ~s.loc.parsing_connections \/ s.end_of_file THEN Goto(s, "cl_617")
           ELSE IF s.symbol.id = CLOSE_SQUARE
           THEN Goto([s EXCEPT !.loc.parsing_connections = FALSE], "cl_617")
           ELSE Call(s, "con_663", UnitArgs(s), "cl_574")
      [] s.pc = "cl_574" ->
           IF s.end_of_file THEN Goto(s, "cl_617")
           ELSE IF s.ret.missing
           THEN IF s.symbol.id = MONITOR_ID THEN Goto(s, "cl_617") ELSE Goto(s, "cl_565")
           ELSE IF s.symbol.type = NAME
           THEN Goto([s EXCEPT !.loc.parsing_connections = TRUE], "cl_565")
           ELSE IF s.symbol.id = CLOSE_SQUARE \/ s.symbol.id = MONITOR_ID
           THEN Goto([s EXCEPT !.loc.parsing_connections = FALSE], "cl_617")
           ELSE IF s.symbol.type = INVALID_CHAR
           THEN CallError(s, "invalid character encountered", {NAME}, "cl_565")
           ELSE CallError(s, "what have we got here",
                          {NAME, CLOSE_SQUARE, MONITOR_ID, EOF}, "cl_607")
      [] s.pc = "cl_607" ->
           IF s.symbol.id = CLOSE_SQUARE THEN Goto(s, "cl_617")
           ELSE IF s.symbol.type = NAME THEN Goto(s, "cl_565")
           ELSE IF s.end_of_file THEN Return(s, ReturnsNone)
           ELSE IF s.symbol.id = MONITOR_ID THEN Goto(s, "cl_617")
           ELSE Goto(s, "cl_565")
      [] s.pc = "cl_617" ->
           IF s.end_of_file \/ s.symbol.id = MONITOR_ID THEN Goto(s, "cl_645")
           ELSE IF s.symbol.id # CLOSE_SQUARE
           THEN CallError(s, "expected ]", {MONITOR_ID, EOF}, "cl_645")
           ELSE SetNext(s, "cl_632")
      [] s.pc = "cl_632" ->
           IF s.symbol.id # SEMICOLON
           THEN CallError(s, "expected ;", {MONITOR_ID, EOF}, "cl_645")
           ELSE IF s.error_count - s.loc.previous_errors # 0 THEN Goto(s, "cl_645")
           ELSE SetNext(s, "cl_643")
      [] s.pc = "cl_643" -> Return(s, [value |-> TRUE])
      [] s.pc = "cl_645" ->
           IF s.symbol.id # MONITOR_ID THEN SetNext(s, "cl_650") ELSE Goto(s, "cl_650")
      [] s.pc = "cl_650" ->
           IF s.error_count - s.loc.previous_errors # 0
           THEN Return(s, [value |-> FALSE]) ELSE Return(s, ReturnsNone)

ConnectionLabels == {"con_663", "con_674", "con_683", "con_689", "con_698", "con_735"}

\* the codes of make_connection that parse_connection turns into a semantic error
NetworkHandled == {"DEVICE_ABSENT", "INPUT_CONNECTED", "INPUT_TO_INPUT",
                   "PORT_ABSENT", "OUTPUT_TO_OUTPUT"}

\* lines 698-733: build only when the connection added no error
connection_gate(s) == s.error_count - s.loc.previous_errors = 0

parse_connection_step(s, code) ==
    CASE s.pc = "con_663" ->
           IF s.symbol.id = SEMICOLON
           THEN CallError(s, "No connection found before semicolon", {NAME}, "con_735")
           ELSE Call(s, "sig_745", SignalArgs, "con_674")
      [] s.pc = "con_674" ->
           LET t == [s EXCEPT !.loc.missing = s.ret.missing_end_marker, !.loc.left = s.ret]
           IN IF s.end_of_file \/ s.ret.missing_end_marker THEN Goto(t, "con_735")
              ELSE SetNext(t, "con_683")
      [] s.pc = "con_683" -> Call(s, "sig_745", SignalArgs, "con_689")
      [] s.pc = "con_689" ->
           LET t == [s EXCEPT !.loc.missing = s.ret.missing_end_marker, !.loc.right = s.ret]
           IN IF s.end_of_file \/ s.ret.missing_end_marker THEN Goto(t, "con_735")
              ELSE Goto(t, "con_698")
      [] s.pc = "con_698" ->
           IF connection_gate(s)
           THEN LET b == Built(s, "make_connection",
                               <<s.loc.left.deviceId, s.loc.left.portId,
                                 s.loc.right.deviceId, s.loc.right.portId>>, code)
                IN IF code \in NetworkHandled
                   THEN SetNext(semantic_error(b, code), "con_735")
                   ELSE SetNext(b, "con_735")
           ELSE SetNext(s, "con_735")
      [] s.pc = "con_735" -> Return(s, [missing |-> s.loc.missing])

SignalLabels == {"sig_745", "sig_753", "sig_757", "sig_766", "sig_783"}

\* the symbols that end a signal (lines 766-769)
signal_end(s) == s.symbol.id = COLON \/ s.symbol.id = SEMICOLON

parse_signal_step(s) ==
    CASE s.pc = "sig_745" ->
           IF s.symbol.type # NAME
           THEN CallError(s, "Expected an output name here", {NAME}, "sig_783")
           ELSE SetNext([s EXCEPT !.loc.signalName =
                                      @ \o <<get_name_string(s.names_list, s.symbol.id).str>>,
                                  !.loc.deviceId = s.symbol.id], "sig_753")
      [] s.pc = "sig_753" ->
           IF s.symbol.id = DOT
           THEN SetNext([s EXCEPT !.loc.signalName = @ \o <<".">>], "sig_757")
           ELSE Goto(s, "sig_766")
      [] s.pc = "sig_757" ->
           IF s.symbol.type # NAME
           THEN CallError(s, "expected a port name here", {NAME}, "sig_783")
           ELSE SetNext([s EXCEPT !.loc.signalName =
                                      @ \o <<get_name_string(s.names_list, s.symbol.id).str>>,
                                  !.loc.portId = s.symbol.id], "sig_766")
      [] s.pc = "sig_766" ->
           IF ~signal_end(s)
           THEN CallError([s EXCEPT !.loc.missing_end_marker = TRUE], "missing ':' or ';'",
                          {NAME, CLOSE_SQUARE, MONITOR_ID}, "sig_783")
           ELSE Goto(s, "sig_783")
      [] s.pc = "sig_783" ->
           Return(s, [missing_end_marker |-> s.loc.missing_end_marker,
                      deviceId |-> s.loc.deviceId, portId |-> s.loc.portId,
                      signalName |-> s.loc.signalName])

(***************************************************************************)
(* Parser.parse_monitors_list, parse_monitor                               *)
(***************************************************************************)
MonitorsListLabels == {"ml_787", "ml_789", "ml_800", "ml_810", "ml_839", "ml_854",
                       "ml_865", "ml_869", "ml_875"}

parse_monitors_list_step(s) ==
    CASE s.pc = "ml_787" -> SetNext(s, "ml_789")
      [] s.pc = "ml_789" ->
           IF s.end_of_file THEN Goto(s, "ml_869")
           ELSE IF s.symbol.id # OPEN_SQUARE
           THEN CallError(s, "expected [", {CONNECTIONS_ID, EOF}, "ml_869")
           ELSE SetNext([s EXCEPT !.loc.parsing_monitors = TRUE], "ml_800")
      [] s.pc = "ml_800" ->
           IF ~s.loc.parsing_monitors \/ s.end_of_file THEN Goto(s, "ml_839")
           ELSE IF s.symbol.id = CLOSE_SQUARE
           THEN Goto([s EXCEPT !.loc.parsing_monitors = FALSE], "ml_839")
           ELSE Call(s, "mon_887", UnitArgs(s), "ml_810")
      [] s.pc = "ml_810" ->
           IF s.end_of_file THEN Goto(s, "ml_839")
           ELSE IF s.ret.missing
           THEN IF s.symbol.id = CONNECTIONS_ID THEN Goto(s, "ml_839") ELSE Goto(s, "ml_800")
           ELSE IF s.symbol.type = NAME
           THEN Goto([s EXCEPT !.loc.parsing_monitors = TRUE], "ml_800")
           ELSE IF s.symbol.id = CLOSE_SQUARE
           THEN Goto([s EXCEPT !.loc.parsing_monitors = FALSE], "ml_800")
           ELSE IF s.symbol.id = CONNECTIONS_ID
           THEN Goto([s EXCEPT !.loc.parsing_monitors = FALSE], "ml_839")
           ELSE IF s.symbol.type = INVALID_CHAR
           THEN CallError(s, "invalid character encountered", {NAME}, "ml_800")
           ELSE Goto([s EXCEPT !.error_count = @ + 1], "ml_839")
      [] s.pc = "ml_839" ->
           IF s.end_of_file \/ s.symbol.id = CONNECTIONS_ID THEN Goto(s, "ml_869")
           ELSE IF s.symbol.id # CLOSE_SQUARE
           THEN CallError(s, "expected ]", {CONNECTIONS_ID, EOF}, "ml_869")
           ELSE SetNext(s, "ml_854")
      [] s.pc = "ml_854" ->
           IF s.symbol.id # SEMICOLON
           THEN CallError(s, "expected ;", {EOF, CONNECTIONS_ID}, "ml_869")
           ELSE IF s.error_count - s.loc.previous_errors # 0 THEN Goto(s, "ml_869")
           ELSE SetNext(s, "ml_865")
      [] s.pc = "ml_865" -> Return(s, [value |-> TRUE])
      [] s.pc = "ml_869" ->
           IF s.symbol.id # CONNECTIONS_ID /\ s.symbol.id # EOF
           THEN SetNext(s, "ml_875") ELSE Goto(s, "ml_875")
      [] s.pc = "ml_875" ->
           IF s.error_count - s.loc.previous_errors # 0
           THEN Return(s, [value |-> FALSE]) ELSE Return(s, ReturnsNone)

MonitorLabels == {"mon_887", "mon_894", "mon_900", "mon_926"}

\* the codes of make_monitor that parse_monitor turns into a semantic error
MonitorHandled == {"DEVICE_ABSENT", "NOT_OUTPUT", "MONITOR_PRESENT"}

\* a gate with the comparison inverted
monitor_gate_inverted(s) == s.error_count - s.loc.previous_errors # 0

\* lines 900-924: build only when the monitor added no error
monitor_gate(s) == s.error_count - s.loc.previous_errors = 0

parse_monitor_step(s, code) ==
    CASE s.pc = "mon_887" ->
           IF s.symbol.id = SEMICOLON
           THEN CallError(s, "No signal found before semicolon", {NAME}, "mon_926")
           ELSE Call(s, "sig_745", SignalArgs, "mon_894")
      [] s.pc = "mon_894" ->
           LET t == [s EXCEPT !.loc.missing = s.ret.missing_end_marker, !.loc.left = s.ret]
           IN IF s.end_of_file \/ s.ret.missing_end_marker THEN Goto(t, "mon_926")
              ELSE Goto(t, "mon_900")
      [] s.pc = "mon_900" ->
           IF monitor_gate(s)
           THEN LET b == Built(s, "make_monitor", <<s.loc.left.deviceId, s.loc.left.portId>>, code)
                IN IF code \in MonitorHandled
                   THEN SetNext(semantic_error(b, code), "mon_926")
                   ELSE SetNext(b, "mon_926")
           ELSE SetNext(s, "mon_926")
      [] s.pc = "mon_926" -> Return(s, [missing |-> s.loc.missing])

(***************************************************************************)
(* Inputs: the sentences of the grammar up to the bounds, each taken as it *)
(* is or with one lexeme deleted, replaced or inserted; and the empty file *)
(***************************************************************************)
MaxDevs == 2
MaxConns == 1
MaxMons == 1
MaxSemErrors == 1
MaxRepeat == 2

DevNames == <<"D1", "D2", "D3", "D4">>

DeviceText(k, withQual) ==
    <<"{", "id", ":", DevNames[k], ";", "kind", ":", "K", ";">>
    \o (IF withQual THEN <<"qual", ":", "0", ";">> ELSE <<>>)
    \o <<"}", ";">>

ConnectionText(k) ==
    IF k % 2 = 1 THEN <<"D1", ":", "D2", ".", "I1", ";">>
    ELSE <<"D2", ".", "Q", ":", "D1", ";">>

MonitorText(k) ==
    IF k % 2 = 1 THEN <<"D1", ";">> ELSE <<"D2", ".", "Q", ";">>

\* a device has a qual clause when its number is odd
HasQual(k) == k % 2 = 1

RECURSIVE Units(_, _)
\* the texts of units 1..n of a list, one after the other
Units(kind, n) ==
    IF n = 0 THEN <<>>
    ELSE Units(kind, n - 1)
         \o CASE kind = "D" -> DeviceText(n, HasQual(n))
              [] kind = "C" -> ConnectionText(n)
              [] kind = "M" -> MonitorText(n)

SectionText(kind, n) ==
    <<CASE kind = "D" -> "DEVICES" [] kind = "C" -> "CONNECTIONS" [] kind = "M" -> "MONITORS",
      "[">> \o Units(kind, n) \o <<"]", ";">>

\* the sections after DEVICES: none, one of them, or both in either order
Tails ==
    {<<>>}
    \cup {<<[kind |-> "C", n |-> k]>> : k \in 0..MaxConns}
    \cup {<<[kind |-> "M", n |-> k]>> : k \in 0..MaxMons}
    \cup {<<[kind |-> "C", n |-> MaxConns], [kind |-> "M", n |-> MaxMons]>>,
          <<[kind |-> "M", n |-> MaxMons], [kind |-> "C", n |-> MaxConns]>>}

\* a file DEVICES tail, with the sections of before in front of DEVICES
Bases ==
    {[empty |-> TRUE, before |-> <<>>, nd |-> 0, tail |-> <<>>]}
    \cup {[empty |-> FALSE, before |-> <<>>, nd |-> n, tail |-> t] :
              n \in 0..MaxDevs, t \in Tails}

\* files whose sections are out of order: CONNECTIONS or MONITORS in front of
\* DEVICES
EarlyBases ==
    LET C == [kind |-> "C", n |-> MaxConns]
        M == [kind |-> "M", n |-> MaxMons]
    IN {[empty |-> FALSE, before |-> bf, nd |-> 1, tail |-> t] :
            bf \in {<<C>>, <<M>>, <<C, M>>, <<M, C>>}, t \in {<<>>, <<C, M>>}}

\* files in which a section comes twice
RepeatBases ==
    LET D == [kind |-> "D", n |-> 1]
        C == [kind |-> "C", n |-> MaxConns]
        CC == [kind |-> "C", n |-> MaxRepeat]
        M == [kind |-> "M", n |-> MaxMons]
        MM == [kind |-> "M", n |-> MaxRepeat]
    IN {[empty |-> FALSE, before |-> <<>>, nd |-> 1, tail |-> t] :
            t \in {<<D>>, <<D, C, M>>, <<C, D, M>>, <<C, C>>, <<C, CC>>, <<C, CC, M>>,
                   <<C, M, CC>>, <<M, MM>>, <<M, MM, C>>, <<M, C, MM>>}}

\* files with both a CONNECTIONS and a MONITORS list of several units, in
\* either order
SwapBases ==
    LET C == [kind |-> "C", n |-> MaxRepeat]
        M == [kind |-> "M", n |-> MaxRepeat]
    IN {[empty |-> FALSE, before |-> <<>>, nd |-> 1, tail |-> t] :
            t \in {<<C, M>>, <<M, C>>}}

RECURSIVE Sections(_)
\* the texts of the sections of a list, one after the other
Sections(secs) ==
    IF secs = <<>> THEN <<>>
    ELSE SectionText(Head(secs).kind, Head(secs).n) \o Sections(Tail(secs))

BaseText(b) ==
    IF b.empty THEN <<>>
    ELSE Sections(b.before) \o SectionText("D", b.nd) \o Sections(b.tail)

\* the lexemes a fault puts in the place of another
FaultLexemes == {"DEVICES", "CONNECTIONS", "MONITORS", "id", "kind", "qual",
                 ":", "[", "]", "{", "}", ";", ".", ",",
                 "D1", "1", "12", "99", "$", "#"}

\* the lexemes a fault adds between two others
StrayLexemes == {":", "{", "}", "]", ";", "D1", "12", "99", "$", "#"}

NoFault == [op |-> "none", at |-> 0, tok |-> ""]

Faults(text) ==
    {NoFault}
    \cup {[op |-> "del", at |-> i, tok |-> ""] : i \in 1..Len(text)}
    \cup {[op |-> "rep", at |-> i, tok |-> t] : i \in 1..Len(text), t \in FaultLexemes}
    \cup {[op |-> "ins", at |-> i, tok |-> t] : i \in 1..(Len(text) + 1), t \in StrayLexemes}

Mutate(text, f) ==
    CASE f.op = "none" -> text
      [] f.op = "del" -> SubSeq(text, 1, f.at - 1) \o SubSeq(text, f.at + 1, Len(text))
      [] f.op = "rep" -> SubSeq(text, 1, f.at - 1) \o <<f.tok>> \o SubSeq(text, f.at + 1, Len(text))
      [] f.op = "ins" -> SubSeq(text, 1, f.at - 1) \o <<f.tok>> \o SubSeq(text, f.at, Len(text))

(***************************************************************************)
(* The machine                                                             *)
(***************************************************************************)
Init ==
    \E b \in Bases \cup EarlyBases \cup RepeatBases \cup SwapBases : \E f \in Faults(BaseText(b)) :
        /\ f.op = "rep" => BaseText(b)[f.at] # f.tok
        /\ f.op # "none" => b \in Bases
        /\ plan = [base |-> b, fault |-> f]
        /\ input = Mutate(BaseText(b), f)
        /\ sem_budget = IF f.op = "none" THEN MaxSemErrors ELSE 0
        /\ fpos = 1
        /\ names_list = InitNames
        /\ error_code_count = 0
        /\ names_log = <<>>
        /\ ScannerIdle
        /\ symbol = Sym(None, None, 0)
        /\ error_count = 0
        /\ end_of_file = FALSE
        /\ unclosed_comment = FALSE
        /\ error_message_list = <<>>
        /\ pc = "net_86"
        /\ loc = [devices_done |-> FALSE, connections_done |-> FALSE,
                  monitors_done |-> FALSE]
        /\ stack = <<>>
        /\ ret = ReturnsNone
        /\ result = <<>>
        /\ calls = <<>>
        /\ error_calls = 0
        /\ semantic_calls = 0

ErrorLabels == {"err_955", "err_1002", "err_1004", "err_1015"}

parse_network == pc \in NetworkLabels /\ \E t \in {parse_network_step(S)} : Commit(t)

parse_devices_list == pc \in DevicesListLabels /\ \E t \in {parse_devices_list_step(S)} : Commit(t)

parse_device ==
    /\ pc \in DeviceLabels
    /\ \E code \in Returned(S, "dev_371", DeviceCodes) : \E t \in {parse_device_step(S, code)} : Commit(t)

parse_device_id == pc \in DeviceIdLabels /\ \E t \in {parse_device_id_step(S)} : Commit(t)

parse_device_kind == pc \in DeviceKindLabels /\ \E t \in {parse_device_kind_step(S)} : Commit(t)

parse_device_qual == pc \in DeviceQualLabels /\ \E t \in {parse_device_qual_step(S)} : Commit(t)

parse_connections_list ==
    pc \in ConnectionsListLabels /\ \E t \in {parse_connections_list_step(S)} : Commit(t)

parse_connection ==
    /\ pc \in ConnectionLabels
    /\ \E code \in Returned(S, "con_698", NetworkCodes) :
           \E t \in {parse_connection_step(S, code)} : Commit(t)

parse_signal == pc \in SignalLabels /\ \E t \in {parse_signal_step(S)} : Commit(t)

parse_monitors_list == pc \in MonitorsListLabels /\ \E t \in {parse_monitors_list_step(S)} : Commit(t)

parse_monitor ==
    /\ pc \in MonitorLabels
    /\ \E code \in Returned(S, "mon_900", MonitorCodes) : \E t \in {parse_monitor_step(S, code)} : Commit(t)

error == pc \in ErrorLabels /\ \E t \in {error_step(S)} : Commit(t)

Next ==
    \/ parse_network
    \/ parse_devices_list
    \/ parse_device
    \/ parse_device_id
    \/ parse_device_kind
    \/ parse_device_qual
    \/ parse_connections_list
    \/ parse_connection
    \/ parse_signal
    \/ parse_monitors_list
    \/ parse_monitor
    \/ error

Spec == Init /\ [][Next]_vars

Done == pc = "done"
Raised == pc = "raised"
Terminated == Done \/ Raised

\* The parser is one sequential program that keeps running until it returns
\* or raises: weak fairness of Next.  Next is enabled exactly while the parse
\* has not ended, which is written out here in place of ENABLED <<Next>>_vars.
FairSpec == Spec /\ ([]<>Terminated \/ []<><<Next>>_vars)

(***************************************************************************)
(* The grammar of the definition file, as a recogniser over lexemes that   *)
(* is independent of the parser                                            *)
(***************************************************************************)
At(inp, i) == IF i \in 1..Len(inp) THEN inp[i] ELSE ""

IsNumberLexeme(l) == l \in DOMAIN NumberVal
IsNameLexeme(l) ==
    /\ l # ""
    /\ l \notin SeqRange(keywords) \cup SeqRange(puncs) \cup DOMAIN NumberVal
    /\ l \notin {InvalidLexeme, UnclosedLexeme}

\* does inp match the pattern from position i on ("NAME", "NUMBER" or the lexeme itself)
Matches(inp, i, pattern) ==
    \A k \in 1..Len(pattern) :
        CASE pattern[k] = "NAME" -> IsNameLexeme(At(inp, i + k - 1))
          [] pattern[k] = "NUMBER" -> IsNumberLexeme(At(inp, i + k - 1))
          [] OTHER -> At(inp, i + k - 1) = pattern[k]

DevicePattern(withQual) ==
    <<"{", "id", ":", "NAME", ";", "kind", ":", "NAME", ";">>
    \o (IF withQual THEN <<"qual", ":", "NUMBER", ";">> ELSE <<>>)
    \o <<"}", ";">>

\* length of the signal at i, 0 when there is none
SignalLen(inp, i) ==
    IF Matches(inp, i, <<"NAME", ".", "NAME">>) THEN 3
    ELSE IF Matches(inp, i, <<"NAME">>) THEN 1 ELSE 0

\* length of the unit of the given kind at i, 0 when there is none
UnitLen(inp, i, kind) ==
    CASE kind = "D" ->
           IF Matches(inp, i, DevicePattern(TRUE)) THEN Len(DevicePattern(TRUE))
           ELSE IF Matches(inp, i, DevicePattern(FALSE)) THEN Len(DevicePattern(FALSE))
           ELSE 0
      [] kind = "C" ->
           LET a == SignalLen(inp, i)
               b == SignalLen(inp, i + a + 1)
           IN IF a > 0 /\ At(inp, i + a) = ":" /\ b > 0 /\ At(inp, i + a + 1 + b) = ";"
              THEN a + b + 2 ELSE 0
      [] kind = "M" ->
           LET a == SignalLen(inp, i)
           IN IF a > 0 /\ At(inp, i + a) = ";" THEN a + 1 ELSE 0

RECURSIVE UnitStarts(_, _, _)
\* the positions at which the units of a list begin, the list's body starting at i
UnitStarts(inp, i, kind) ==
    IF UnitLen(inp, i, kind) = 0 THEN <<>>
    ELSE <<i>> \o UnitStarts(inp, i + UnitLen(inp, i, kind), kind)

SectionKeyword(kind) ==
    CASE kind = "D" -> "DEVICES" [] kind = "C" -> "CONNECTIONS" [] kind = "M" -> "MONITORS"

\* position after the section of the given kind at i, 0 when there is none
SectionEnd(inp, i, kind) ==
    IF At(inp, i) = SectionKeyword(kind) /\ At(inp, i + 1) = "["
    THEN LET us == UnitStarts(inp, i + 2, kind)
             j == IF us = <<>> THEN i + 2
                  ELSE us[Len(us)] + UnitLen(inp, us[Len(us)], kind)
         IN IF At(inp, j) = "]" /\ At(inp, j + 1) = ";" THEN j + 2 ELSE 0
    ELSE 0

\* file = devices_section [connections_section] [monitors_section] EOF
IsSentence(inp) ==
    LET d == SectionEnd(inp, 1, "D")
        c == IF d > 0 /\ SectionEnd(inp, d, "C") > 0 THEN SectionEnd(inp, d, "C") ELSE d
        m == IF c > 0 /\ SectionEnd(inp, c, "M") > 0 THEN SectionEnd(inp, c, "M") ELSE c
    IN d > 0 /\ m = Len(inp) + 1

\* the id a lexeme has in the table nl: a number is its value
LexemeId(nl, l) == IF IsNumberLexeme(l) THEN NumberVal[l] ELSE query(nl, l)

\* the arguments the unit at i is built with
UnitArgsAt(inp, nl, i, kind) ==
    LET sig(j) == IF SignalLen(inp, j) = 3
                  THEN <<LexemeId(nl, At(inp, j)), LexemeId(nl, At(inp, j + 2))>>
                  ELSE <<LexemeId(nl, At(inp, j)), None>>
    IN CASE kind = "D" ->
              <<LexemeId(nl, At(inp, i + 3)), LexemeId(nl, At(inp, i + 7)),
                IF At(inp, i + 9) = "qual" THEN LexemeId(nl, At(inp, i + 11)) ELSE None>>
         [] kind = "C" -> sig(i) \o sig(i + SignalLen(inp, i) + 1)
         [] kind = "M" -> sig(i)

MakeOf(kind) ==
    CASE kind = "D" -> "make_device" [] kind = "C" -> "make_connection"
      [] kind = "M" -> "make_monitor"

\* the calls a sentence asks for, in source order
ExpectedCalls(inp, nl) ==
    LET d == SectionEnd(inp, 1, "D")
        hasC == SectionEnd(inp, d, "C") > 0
        c == IF hasC THEN SectionEnd(inp, d, "C") ELSE d
        hasM == SectionEnd(inp, c, "M") > 0
        list(i, kind) ==
            LET us == UnitStarts(inp, i + 2, kind)
            IN [k \in 1..Len(us) |->
                   [fn |-> MakeOf(kind), unit |-> us[k],
                    args |-> UnitArgsAt(inp, nl, us[k], kind)]]
    IN list(1, "D") \o (IF hasC THEN list(d, "C") ELSE <<>>)
                    \o (IF hasM THEN list(c, "M") ELSE <<>>)

\* the calls made so far, without the codes they returned
CallsMade == [i \in 1..Len(calls) |->
                 [fn |-> calls[i].fn, unit |-> calls[i].unit, args |-> calls[i].args]]

AllNoError == \A i \in 1..Len(calls) : calls[i].code = "NO_ERROR"

(***************************************************************************)
(* Where a fault sits in the file, and what was built around it            *)
(***************************************************************************)
RECURSIVE DevStart(_)
\* position of the '{' of device k in the unmutated file
DevStart(k) ==
    IF k = 1 THEN Len(<<"DEVICES", "[">>) + 1
    ELSE DevStart(k - 1) + Len(DeviceText(k - 1, HasQual(k - 1)))

\* position of the ';' that ends device k
DevEnd(k) == DevStart(k) + Len(DeviceText(k, HasQual(k))) - 1

\* position of the keyword of clause c of device k
ClauseStart(k, c) ==
    DevStart(k) + CASE c = "id" -> Len(<<"{">>)
                    [] c = "kind" -> Len(<<"{", "id", ":", "NAME", ";">>)
                    [] c = "qual" -> Len(<<"{", "id", ":", "NAME", ";", "kind", ":", "NAME", ";">>)

Clauses == {"id", "kind", "qual"}

HasClause(k, c) == k <= plan.base.nd /\ (c = "qual" => HasQual(k))

\* the make_device calls made so far and the names of their devices
DeviceCalls == SelectSeq(calls, LAMBDA c : c.fn = "make_device")
DevicesBuilt ==
    [i \in 1..Len(DeviceCalls) |-> get_name_string(names_list, DeviceCalls[i].args[1]).str]

RECURSIVE DevicesExcept(_, _)
\* the names of devices 1..n of the unmutated file, those in K left out
DevicesExcept(n, K) ==
    IF n = 0 THEN <<>>
    ELSE DevicesExcept(n - 1, K) \o (IF n \in K THEN <<>> ELSE <<DevNames[n]>>)

\* the connections and monitors built, and how many the unmutated file has
TailCalls == Len(calls) - Len(DeviceCalls)
TailUnits ==
    IF Len(plan.base.tail) = 0 THEN 0
    ELSE IF Len(plan.base.tail) = 1 THEN plan.base.tail[1].n
    ELSE plan.base.tail[1].n + plan.base.tail[2].n

\* one fault on the keyword, the ':' or the value of clause c of device k: the
\* lexeme is missing or is another one, or a stray lexeme stands before the
\* ':' or the value; the device no longer matches the grammar
ClauseFault(k, c) ==
    /\ HasClause(k, c)
    /\ plan.fault.tok # UnclosedLexeme
    /\ \/ /\ plan.fault.op \in {"del", "rep"}
          /\ plan.fault.at \in ClauseStart(k, c)..(ClauseStart(k, c) + 2)
       \/ /\ plan.fault.op = "ins"
          /\ plan.fault.at \in (ClauseStart(k, c) + 1)..(ClauseStart(k, c) + 2)
    /\ UnitLen(input, DevStart(k), "D") = 0

\* what follows clause c in device k, and where parse_device stands after it
AfterClause(k, c) ==
    CASE c = "id" -> [pc |-> "dev_321", lexeme |-> "kind"]
      [] c = "kind" -> [pc |-> "dev_333", lexeme |-> IF HasQual(k) THEN "qual" ELSE "}"]
      [] c = "qual" -> [pc |-> "dev_341", lexeme |-> "}"]

\* the labels of the clauses that come after clause c in a device
LaterClauseLabels(c) ==
    CASE c = "id" -> DeviceKindLabels \cup DeviceQualLabels
      [] c = "kind" -> DeviceQualLabels
      [] c = "qual" -> {}

\* the ';' that ends clause c of device k is missing
MissingClauseSemicolon(k, c) ==
    /\ HasClause(k, c)
    /\ plan.fault.op = "del"
    /\ plan.fault.at = ClauseStart(k, c) + 3

\* the ';' after the '}' of device k is missing and another device follows
MissingDeviceSemicolon(k) ==
    /\ k < plan.base.nd
    /\ plan.fault.op = "del"
    /\ plan.fault.at = DevEnd(k)

\* the error() call that set_next makes for an unclosed comment is running
InUnclosedError == pc \in ErrorLabels /\ loc.msg = UnclosedMsg

\* the diagnostics recorded so far, the closing summary left out
ErrorDiagnostics == SelectSeq(error_message_list, LAMBDA d : d.kind # "final")

(***************************************************************************)
(* Properties of parse_network                                             *)
(***************************************************************************)

\* C1: a file that is a sentence of the grammar, parsed with collaborators
\* that always answer NO_ERROR, makes parse_network return True with
\* error_count 0, after exactly one make_device, make_connection or
\* make_monitor call per unit of the file, in the order of the file and with
\* the ids the unit names.
C1_WellFormedAccepted ==
    (Terminated /\ AllNoError /\ IsSentence(input)) =>
        /\ Done
        /\ result = <<TRUE>>
        /\ error_count = 0
        /\ CallsMade = ExpectedCalls(input, names_list)

C1_Witness ==
    /\ Done
    /\ IsSentence(input)
    /\ result = <<TRUE>>
    /\ Len(calls) = MaxDevs + MaxConns + MaxMons

\* C2: whenever parse_network returns, it returns True exactly when
\* error_count is 0; the early return for an empty file is one such path.
C2_ReturnIffNoErrors ==
    Done => (result = <<TRUE>> <=> error_count = 0)

C2_Witness ==
    /\ Done
    /\ input = <<>>
    /\ result = <<FALSE>>
    /\ error_count > 0

\* C3: every collaborator call is made for a unit whose error_count still
\* equals its value at the unit's entry, and in which error() has not been
\* called.
C3_SemanticGating ==
    \A i \in 1..Len(calls) : calls[i].count_delta = 0 /\ calls[i].unit_errors = 0

\* one unit was faulty and not built, every other unit was built
C3_Witness ==
    /\ Done
    /\ plan.fault.op # "none"
    /\ error_calls = 1
    /\ Len(calls) = MaxDevs + MaxConns + MaxMons - 1

\* C9: for an input with no symbol before its end, parse_network records
\* exactly one diagnostic, the empty-definition-file error, enters no section
\* and calls no collaborator, leaves unclosed_comment False and returns False.
C9_EmptyFile ==
    input = <<>> =>
        /\ ~Raised
        /\ pc \in {"net_86", "net_88", "net_97", "done"} \cup ErrorLabels
        /\ calls = <<>>
        /\ ~unclosed_comment
        /\ Done => /\ result = <<FALSE>>
                   /\ error_calls = 1
                   /\ Len(error_message_list) = 1
                   /\ error_message_list[1].kind = "ERROR"
                   /\ error_message_list[1].msg = "Empty definition file was loaded."

C9_Witness == Done /\ input = <<>> /\ Len(error_message_list) = 1

\* C10: parse_network comes to an end on every input, and whenever it
\* returns the current symbol is EOF.
C10_Terminates == <>Terminated /\ [](Done => symbol.type = EOF)

C10_Witness == Done /\ symbol.type = EOF /\ error_calls > 1 /\ Len(calls) > 0

\* C5: one syntax fault inside the id, kind or qual clause of a device,
\* before the clause's ';', costs exactly that device: the parse returns with
\* error_count 1, every device but that one is built, and the clause returns
\* to parse_device, without the missing-semicolon flag, at the first symbol
\* of what follows the clause in the same device.
C5_ClauseFaultCostsOneDevice ==
    \A k \in 1..MaxDevs : \A c \in Clauses :
        ClauseFault(k, c) =>
            /\ Terminated =>
                   /\ Done
                   /\ error_count = 1
                   /\ DevicesBuilt = DevicesExcept(plan.base.nd, {k})
            /\ (pc = AfterClause(k, c).pc /\ loc.unit = DevStart(k)) =>
                   /\ ~ret.missing_semicolon
                   /\ At(input, symbol.pos) = AfterClause(k, c).lexeme

C7_MissingSemicolonCostsOneDevice ==
    \A k \in 1..MaxDevs : \A c \in Clauses :
        MissingClauseSemicolon(k, c) =>
            /\ Terminated =>
                   /\ Done
                   /\ DevicesBuilt = DevicesExcept(plan.base.nd, {k})
                   /\ TailCalls = TailUnits
            /\ (pc = AfterClause(k, c).pc /\ loc.unit = DevStart(k)) =>
                   ret.missing_semicolon
            /\ ~(pc \in LaterClauseLabels(c) /\ Head(stack).loc.unit = DevStart(k))

\* C8: once set_next has reported an unclosed comment, unclosed_comment stays
\* True, a return of parse_network is a return of False, and after the error()
\* call for the comment has returned neither error_count nor the recorded
\* diagnostics change.
C8_UnclosedCommentFatal ==
    [][unclosed_comment =>
          /\ unclosed_comment'
          /\ Done' => result' = <<FALSE>>
          /\ ~InUnclosedError =>
                 /\ error_count' = error_count
                 /\ ErrorDiagnostics' = ErrorDiagnostics]_vars

\* C4: at every point error_count is the number of error() calls plus the
\* number of semantic_error() calls made so far.
C4_CountIsCalls == error_count = error_calls + semantic_calls

\* the 'ERROR on line ...' entries of error_message_list, by their place
ErrorDiagnosticPlaces ==
    {i \in DOMAIN error_message_list : error_message_list[i].kind = "ERROR"}

\* this step is the return of a call of error() to its caller
ErrorReturns ==
    /\ pc \in ErrorLabels
    /\ stack # <<>>
    /\ stack' = Tail(stack)
    /\ pc' = Head(stack).pc

\* where a clause function stands when its error() call for a missing ';'
\* has returned, and the expected-next list it gave to that call
MissingSemicolonExpects ==
    [id_453 |-> {OPEN_CURLY},
     kind_503 |-> {OPEN_CURLY, CLOSE_SQUARE},
     qual_542 |-> {OPEN_CURLY, CLOSE_SQUARE}]
MissingSemicolonLabels == DOMAIN MissingSemicolonExpects

\* C33 as stated: a missing ';' at the end of an id, kind or qual clause is
\* reported without the search of error() for a ';': when the report comes
\* back to the clause, the current symbol is still the one found in place of
\* the ';', so no symbol was discarded.
C33_MissingSemicolonNoRecovery ==
    [][(ErrorReturns /\ pc' \in MissingSemicolonLabels) => symbol'.pos = loc.entry]_vars

\* C33 as the code has it: the clause reports the missing ';' by one call of
\* error(), with the message 'Missing semicolon' (id) or 'missing semicolon'
\* (kind, qual), and that call runs its search.  Unless it was entered at the
\* end of the file it discards at least the symbol found in place of the ';',
\* and it comes back at the end of the file or at the first symbol behind a
\* ';' that passes the test of the expected-next list: '{' for an id clause,
\* '{' or ']' for a kind or qual clause.  The clause then sets its
\* missing_semicolon flag.
C33_MissingSemicolonRunsRecovery ==
    [][/\ (ErrorReturns /\ pc' \in MissingSemicolonLabels) =>
              /\ loc.msg \in {"Missing semicolon", "missing semicolon"}
              /\ loc.expect_next_list = MissingSemicolonExpects[pc']
              /\ error_count' >= 1
              /\ \E i \in ErrorDiagnosticPlaces' : error_message_list'[i].msg = loc.msg
              /\ \/ symbol'.type = EOF /\ symbol'.pos = loc.entry /\ end_of_file'
                 \/ /\ symbol'.pos > loc.entry + 1
                    /\ \/ symbol'.type = EOF
                       \/ /\ input[symbol'.pos - 1] = ";"
                          /\ \/ symbol'.id \in MissingSemicolonExpects[pc']
                             \/ symbol'.type \in MissingSemicolonExpects[pc']
       /\ (pc \in MissingSemicolonLabels /\ pc' # "raised") => loc'.missing_semicolon]_vars

\* the ';' of the kind clause of the first device is missing: error() has
\* discarded the rest of that device and come back at the '{' of the next
C33_Witness ==
    /\ pc = "kind_503"
    /\ MissingClauseSemicolon(1, "kind")
    /\ symbol.id = OPEN_CURLY
    /\ symbol.pos = DevStart(2) - 1
    /\ error_count = 1
    /\ ~end_of_file

\* C31: acceptance is sound.  When parse_network returns True, with
\* collaborators that always answer NO_ERROR, the symbols of the file are a
\* sentence of the grammar: every connection built was signal ':' signal ';'
\* and every monitor built was signal ';'.
C31_AcceptedIsSentence ==
    (Done /\ result = <<TRUE>> /\ AllNoError) => IsSentence(input)

\* C38: every counted error has a diagnostic: at every point between two
\* calls the number of 'ERROR on line ...' entries of error_message_list is
\* error_count.  (A run cut short by an exception is left out.)
C38_CountIsDiagnostics == ~Raised => error_count = Cardinality(ErrorDiagnosticPlaces)

\* C38, second half: error_message_list is only ever appended to
C38_AppendOnly ==
    [][/\ Len(error_message_list') >= Len(error_message_list)
       /\ SubSeq(error_message_list', 1, Len(error_message_list)) = error_message_list]_vars

\* C39: error_count never decreases: every step of the parser leaves it as
\* it is or makes it larger, whichever of error(), semantic_error() and the
\* plain increments of parse_network and parse_monitor_list takes the step.
C39_ErrorCountMonotone == [][error_count' >= error_count]_vars

\* a finished run in which error() and semantic_error() have both counted
C39_Witness ==
    /\ Done
    /\ error_calls >= 1
    /\ semantic_calls >= 1
    /\ error_count >= 2

(***************************************************************************)
(* The order of the sections                                               *)
(***************************************************************************)
\* the locals of parse_network, whichever rule function is running
NetworkLoc == IF stack = <<>> THEN loc ELSE stack[Len(stack)].loc

\* parse_network has just come back from the error() call for a CONNECTIONS
\* or MONITORS keyword met before any DEVICES list
AfterEarlySection == pc \in {"net_139", "net_160"}

\* C11: make_connection and make_monitor are called only once the DEVICES
\* section has been processed; a CONNECTIONS or MONITORS keyword met before
\* any DEVICES list counts an error, no unit in front of the DEVICES keyword
\* is built, and the error() call for it returns at the DEVICES keyword or at
\* end of input.
C11_DevicesFirst ==
    /\ \A i \in 1..Len(calls) :
           calls[i].fn \in {"make_connection", "make_monitor"} =>
               /\ NetworkLoc.devices_done
               /\ calls[i].unit > Len(Sections(plan.base.before))
    /\ AfterEarlySection =>
           /\ error_calls >= 1
           /\ error_count >= 1
           /\ \/ symbol.type = KEYWORD /\ symbol.id = DEVICES_ID
              \/ _is_eof(S)
\* the 'multiple lists' errors of parse_network (lines 107-154): for each
\* section keyword the done flag, the message, and the section keywords that
\* may follow the repeated section
MultipleLists ==
    {[id |-> DEVICES_ID, done |-> "devices_done", entry |-> "dl_189",
      msg |-> "Multiple device lists found.", next |-> {CONNECTIONS_ID, MONITOR_ID}],
     [id |-> CONNECTIONS_ID, done |-> "connections_done", entry |-> "cl_552",
      msg |-> "Multiple connections lists found.", next |-> {MONITOR_ID}],
     [id |-> MONITOR_ID, done |-> "monitors_done", entry |-> "ml_787",
      msg |-> "Multiple monitors lists found.", next |-> {CONNECTIONS_ID}]}

\* C12: a section is entered only when it was not parsed before; a section
\* keyword met again is reported with the 'multiple lists' message of its
\* kind, and the error() call for it returns to parse_network at the next
\* expected section keyword or at end of input.
C12_SectionsOnce ==
    [][\A m \in MultipleLists :
          /\ pc' = m.entry => ~NetworkLoc[m.done]
          /\ (/\ pc = "net_105" /\ symbol.type = KEYWORD /\ symbol.id = m.id
              /\ loc[m.done])
                 => pc' = "err_955" /\ loc'.msg = m.msg
          /\ (pc \in ErrorLabels /\ loc.msg = m.msg /\ pc' = "net_105")
                 => \/ symbol'.type = EOF
                    \/ symbol'.type = KEYWORD /\ symbol'.id \in m.next]_vars
(***************************************************************************)
(* Semantic errors                                                         *)
(***************************************************************************)
\* the collaborator calls that came back with a code other than NO_ERROR
FailedCalls == SelectSeq(calls, LAMBDA c : c.code # "NO_ERROR")

\* C13: every collaborator call that returns a code other than NO_ERROR is
\* recorded as exactly one semantic error, and a parse in which one was
\* returned ends with parse_network returning False; this includes the
\* make_device code for a device name that is already present.
C13_FailedBuildIsSemanticError ==
    /\ semantic_calls = Len(FailedCalls)
    /\ (Done /\ FailedCalls # <<>>) => result = <<FALSE>>
(***************************************************************************)
(* CONNECTIONS and MONITORS in either order                                *)
(***************************************************************************)
\* connection and monitor calls with their ids replaced by the names they
\* stand for in the table nl, as a set: what was asked of the network and the
\* monitors, whatever ids the names got in this parse
NamedCalls(cs, nl) ==
    {[fn |-> cs[i].fn,
      args |-> [j \in 1..Len(cs[i].args) |->
                   IF cs[i].args[j] = None THEN "None"
                   ELSE get_name_string(nl, cs[i].args[j]).str]] :
        i \in {k \in 1..Len(cs) : cs[k].fn \in {"make_connection", "make_monitor"}}}

\* the file is DEVICES followed by a CONNECTIONS and a MONITORS list
BothTails ==
    /\ plan.fault = NoFault
    /\ plan.base.before = <<>>
    /\ Len(plan.base.tail) = 2
    /\ {plan.base.tail[1].kind, plan.base.tail[2].kind} = {"C", "M"}

\* the same file with CONNECTIONS in front of MONITORS
ConnectionsFirst(b) ==
    IF b.tail[1].kind = "C" THEN b ELSE [b EXCEPT !.tail = <<b.tail[2], b.tail[1]>>]

\* C14: a file with a well-formed CONNECTIONS and a well-formed MONITORS list
\* after DEVICES is accepted whichever of the two comes first: in both orders
\* parse_network returns True with error_count 0, and the connections and
\* monitors asked for are those of the file that has CONNECTIONS first.
C14_EitherOrder ==
    (Done /\ BothTails /\ AllNoError) =>
        /\ result = <<TRUE>>
        /\ error_count = 0
        /\ Len(calls) = plan.base.nd + plan.base.tail[1].n + plan.base.tail[2].n
        /\ NamedCalls(calls, names_list)
               = NamedCalls(ExpectedCalls(BaseText(ConnectionsFirst(plan.base)), names_list),
                            names_list)

C14_Witness ==
    /\ Done
    /\ BothTails
    /\ plan.base.tail[1] = [kind |-> "M", n |-> MaxRepeat]
    /\ plan.base.tail[2] = [kind |-> "C", n |-> MaxRepeat]
    /\ result = <<TRUE>>
    /\ Cardinality(NamedCalls(calls, names_list)) = MaxRepeat + MaxRepeat
(***************************************************************************)
(* The Names table as a machine of its own: any sequence of its four       *)
(* operations on a table that starts empty (Names.__init__), each recorded *)
(* in names_log with its argument, its result and the table around it.     *)
(***************************************************************************)
MaxOps == 3
MaxCodes == 2
MaxNameId == 4

NameStrings == {"Sw1", "Sw2", "Sw3"}

\* the arguments of lookup: lists of up to two strings
NameStringLists ==
    {<<>>} \cup {<<a>> : a \in NameStrings} \cup {<<a, b>> : a, b \in NameStrings}

\* the integers given to get_name_string (None is not an integer)
NameIds == ((0 - MaxNameId)..MaxNameId) \ {None}

\* one entry of names_log
Logged(op, strs, num, r) ==
    [op |-> op, strs |-> strs, num |-> num, ids |-> r.ids, str |-> r.str, exc |-> r.exc,
     before |-> names_list, after |-> names_list',
     count_before |-> error_code_count, count_after |-> error_code_count']

NamesInit ==
    /\ names_list = <<>>
    /\ error_code_count = 0
    /\ names_log = <<>>
    /\ ScannerIdle
    /\ input = <<>>
    /\ fpos = 1
    /\ symbol = Sym(None, None, 0)
    /\ error_count = 0
    /\ end_of_file = FALSE
    /\ unclosed_comment = FALSE
    /\ error_message_list = <<>>
    /\ pc = "names"
    /\ loc = [devices_done |-> FALSE, connections_done |-> FALSE,
              monitors_done |-> FALSE]
    /\ stack = <<>>
    /\ ret = ReturnsNone
    /\ result = <<>>
    /\ calls = <<>>
    /\ error_calls = 0
    /\ semantic_calls = 0
    /\ sem_budget = 0
    /\ plan = [base |-> [empty |-> TRUE, before |-> <<>>, nd |-> 0, tail |-> <<>>],
               fault |-> NoFault]

Names_unique_error_codes ==
    /\ Len(names_log) < MaxOps
    /\ \E n \in 0..MaxCodes :
          LET r == unique_error_codes(error_code_count, n)
          IN /\ error_code_count' = r.count
             /\ names_list' = names_list
             /\ names_log' = Append(names_log,
                    Logged("unique_error_codes", <<>>, n,
                           [ids |-> r.codes, str |-> "", exc |-> "ok"]))
    /\ UNCHANGED <<parser_vars, scanner_vars>>

Names_query ==
    /\ Len(names_log) < MaxOps
    /\ \E name_string \in NameStrings :
          /\ names_list' = names_list
          /\ error_code_count' = error_code_count
          /\ names_log' = Append(names_log,
                 Logged("query", <<name_string>>, 0,
                        [ids |-> <<query(names_list, name_string)>>, str |-> "",
                         exc |-> "ok"]))
    /\ UNCHANGED <<parser_vars, scanner_vars>>

Names_lookup ==
    /\ Len(names_log) < MaxOps
    /\ \E name_string_list \in NameStringLists :
          LET r == lookup(names_list, name_string_list)
          IN /\ names_list' = r.names
             /\ error_code_count' = error_code_count
             /\ names_log' = Append(names_log,
                    Logged("lookup", name_string_list, 0,
                           [ids |-> r.ids, str |-> "", exc |-> r.exc]))
    /\ UNCHANGED <<parser_vars, scanner_vars>>

Names_get_name_string ==
    /\ Len(names_log) < MaxOps
    /\ \E name_id \in NameIds :
          LET r == get_name_string(names_list, name_id)
          IN /\ names_list' = names_list
             /\ error_code_count' = error_code_count
             /\ names_log' = Append(names_log,
                    Logged("get_name_string", <<>>, name_id,
                           [ids |-> <<>>, str |-> r.str, exc |-> r.exc]))
    /\ UNCHANGED <<parser_vars, scanner_vars>>

NamesNext ==
    \/ Names_unique_error_codes
    \/ Names_query
    \/ Names_lookup
    \/ Names_get_name_string

NamesSpec == NamesInit /\ [][NamesNext]_vars

\* the lists with an element that is no string (test_names.py 59-63 gives
\* ["yoohoo", 4.44]), of up to MaxListLen elements
MaxListLen == 3
MixedLists ==
    LET Elems == NameStrings \cup NotStrings
        All == {<<a>> : a \in Elems} \cup {<<a, b>> : a, b \in Elems}
                   \cup {<<a, b, c>> : a, b, c \in Elems}
    IN {l \in All : \E i \in DOMAIN l : ~isinstance_str(l[i])}

\* a call of lookup that raises TypeError: what it interned before the raise
\* stays in names_list, and the caller gets no ids
Names_lookup_raises ==
    /\ Len(names_log) < MaxOps
    /\ \E name_string_list \in MixedLists :
          LET r == lookup(names_list, name_string_list)
          IN /\ names_list' = r.names
             /\ error_code_count' = error_code_count
             /\ names_log' = Append(names_log,
                    Logged("lookup", name_string_list, 0,
                           [ids |-> r.ids, str |-> "", exc |-> r.exc]))
    /\ UNCHANGED <<parser_vars, scanner_vars>>

NamesRaisingNext ==
    \/ NamesNext
    \/ Names_lookup_raises

\* the Names table with callers that also pass lists holding a non-string
NamesRaisingSpec == NamesInit /\ [][NamesRaisingNext]_vars

\* the entries of names_log made by one operation, by their place in the log
LogOf(op) == {i \in 1..Len(names_log) : names_log[i].op = op}
(***************************************************************************)
(* Properties of Names                                                     *)
(***************************************************************************)
\* the strings given to lookup in the log entries before entry j
LookedUpBefore(j) ==
    UNION {SeqRange(names_log[i].strs) : i \in {k \in LogOf("lookup") : k < j}}

\* C15: whenever a string is looked up twice, in one call or in two calls
\* with any operations between them, both lookups return the same id; and a
\* lookup makes names_list longer only by the strings that were never looked
\* up before, each counted once.
C15_LookupIdempotent ==
    \A j \in LogOf("lookup") :
        LET e == names_log[j] IN
        /\ \A i \in LogOf("lookup") :
               i <= j =>
                   \A p \in DOMAIN names_log[i].strs : \A q \in DOMAIN e.strs :
                       names_log[i].strs[p] = e.strs[q] => names_log[i].ids[p] = e.ids[q]
        /\ Len(e.after) - Len(e.before) = Cardinality(SeqRange(e.strs) \ LookedUpBefore(j))

C15_Witness ==
    /\ Len(names_log) = MaxOps
    /\ names_log[1].op = "lookup"
    /\ names_log[2].op = "unique_error_codes"
    /\ names_log[MaxOps].op = "lookup"
    /\ names_log[MaxOps].strs # <<>>
    /\ SeqRange(names_log[MaxOps].strs) \subseteq SeqRange(names_log[1].strs)
    /\ names_log[MaxOps].after = names_log[MaxOps].before
RECURSIVE FirstSeen(_, _)
\* the distinct strings given to lookup in log entries 1..n-1 and as the
\* first p strings of entry n, in the order in which they were first given
FirstSeen(n, p) ==
    LET given(i) == IF names_log[i].op = "lookup" THEN names_log[i].strs ELSE <<>>
    IN IF n = 0 THEN <<>>
       ELSE IF p = 0
       THEN (IF n = 1 THEN <<>> ELSE FirstSeen(n - 1, Len(given(n - 1))))
       ELSE LET d == FirstSeen(n, p - 1)
                x == given(n)[p]
            IN IF x \in SeqRange(d) THEN d ELSE Append(d, x)

\* C16: names_list holds each string once; it is the list of the distinct
\* strings ever given to lookup, in first-seen order, so the k-th of them has
\* id k-1, and lookup returns that id; no operation changes or removes an
\* entry the table already has.
C16_DenseStable ==
    /\ \A i, j \in DOMAIN names_list : names_list[i] = names_list[j] => i = j
    /\ names_list = FirstSeen(Len(names_log) + 1, 0)
    /\ \A i \in LogOf("lookup") : \A p \in DOMAIN names_log[i].strs :
           FirstSeen(i, p)[names_log[i].ids[p] + 1] = names_log[i].strs[p]
    /\ \A i \in DOMAIN names_log :
           /\ Len(names_log[i].before) <= Len(names_log[i].after)
           /\ SubSeq(names_log[i].after, 1, Len(names_log[i].before)) = names_log[i].before
           /\ names_log[i].before = IF i = 1 THEN <<>> ELSE names_log[i - 1].after
    /\ names_log # <<>> => names_list = names_log[Len(names_log)].after

C16_Witness ==
    /\ Len(names_list) = Cardinality(NameStrings)
    /\ LogOf("lookup") # DOMAIN names_log
    /\ \E i \in LogOf("lookup") : i > 1 /\ Len(names_log[i].after) > Len(names_log[i].before)
\* the place of the first element of a list that is no string
FirstNonString(l) ==
    CHOOSE k \in DOMAIN l :
        /\ ~isinstance_str(l[k])
        /\ \A j \in 1..(k - 1) : isinstance_str(l[j])

\* the place of a string in a list that holds it
PlaceIn(list, x) == CHOOSE p \in DOMAIN list : list[p] = x

\* C40: lookup goes through its list from left to right and is not atomic
\* when it fails.  When it raises TypeError for an element that is no string,
\* every string before that element is in names_list, at the id it keeps in
\* every later state; no element after it has been interned; the table has
\* only grown; and the call returned no ids.
C40_LookupNotAtomic ==
    \A i \in LogOf("lookup") :
        LET e == names_log[i]
        IN e.exc = "TypeError" =>
           LET k == FirstNonString(e.strs)
               prefix == {e.strs[j] : j \in 1..(k - 1)}
               suffix == {e.strs[j] : j \in (k + 1)..Len(e.strs)}
           IN /\ prefix \subseteq SeqRange(e.after)
              /\ \A x \in prefix :
                     /\ x \in SeqRange(names_list)
                     /\ PlaceIn(names_list, x) = PlaceIn(e.after, x)
                     /\ x \in SeqRange(e.before) =>
                            PlaceIn(e.after, x) = PlaceIn(e.before, x)
              /\ SeqRange(e.after) = SeqRange(e.before) \cup prefix
              /\ \A x \in suffix \ (prefix \cup SeqRange(e.before)) :
                     x \notin SeqRange(e.after)
              /\ Len(e.after) = Len(e.before) + Cardinality(prefix \ SeqRange(e.before))
              /\ SubSeq(e.after, 1, Len(e.before)) = e.before
              /\ e.ids = <<>>

\* a failing lookup has interned the string before the non-string and not
\* the new string after it, and a later lookup returns the interned id
C40_Witness ==
    /\ Len(names_log) = MaxOps
    /\ names_log[2].op = "lookup"
    /\ names_log[2].exc = "TypeError"
    /\ Len(names_log[2].strs) = MaxListLen
    /\ FirstNonString(names_log[2].strs) = 2
    /\ names_log[2].strs[1] \notin SeqRange(names_log[2].before)
    /\ names_log[2].strs[3] \in NameStrings \ SeqRange(names_log[2].after)
    /\ names_log[2].before # <<>>
    /\ names_log[MaxOps].op = "lookup"
    /\ names_log[MaxOps].exc = "ok"
    /\ names_log[MaxOps].strs = <<names_log[2].strs[1]>>
    /\ names_log[MaxOps].ids = <<Len(names_log[2].before)>>

\* C17: names and ids convert back and forth.  The id lookup returns for a
\* string gives that string back through get_name_string, at once and after
\* any later operations; and the string get_name_string returns for an id of
\* the table is looked up to that id, without changing the table.
C17_RoundTrip ==
    /\ \A s \in NameStrings :
           LET r == lookup(names_list, <<s>>)
           IN get_name_string(r.names, r.ids[1]) = [exc |-> "ok", str |-> s]
    /\ \A id \in 0..(Len(names_list) - 1) :
           lookup(names_list, <<get_name_string(names_list, id).str>>)
               = [names |-> names_list, ids |-> <<id>>, exc |-> "ok"]
    /\ \A i \in LogOf("lookup") : \A j \in LogOf("get_name_string") :
           \A p \in DOMAIN names_log[i].strs :
               /\ (i < j /\ names_log[j].num = names_log[i].ids[p]) =>
                      names_log[j].exc = "ok" /\ names_log[j].str = names_log[i].strs[p]
               /\ (j < i /\ names_log[j].exc = "ok"
                         /\ names_log[j].str = names_log[i].strs[p]) =>
                      names_log[i].ids[p] = names_log[j].num

C17_Witness ==
    /\ Len(names_log) = MaxOps
    /\ names_log[1].op = "lookup"
    /\ Len(names_log[1].strs) = 2
    /\ names_log[2].op = "get_name_string"
    /\ names_log[2].num = names_log[1].ids[2]
    /\ names_log[2].str = names_log[1].strs[2]
    /\ names_log[2].num > 0
    /\ names_log[MaxOps].op = "lookup"
    /\ names_log[MaxOps].strs = <<names_log[2].str>>
    /\ names_log[MaxOps].ids = <<names_log[2].num>>
\* C18: query changes neither names_list nor error_code_count; it returns
\* None for a string that was never given to lookup, and otherwise the id
\* that lookup returns for the string, before and after the query.
C18_QueryReadOnly ==
    \A j \in LogOf("query") :
        LET e == names_log[j]
            s == e.strs[1]
        IN /\ e.after = e.before
           /\ e.count_after = e.count_before
           /\ s \notin LookedUpBefore(j) => e.ids = <<None>>
           /\ s \in LookedUpBefore(j) =>
                  /\ e.ids = lookup(e.before, <<s>>).ids
                  /\ \A i \in LogOf("lookup") : \A p \in DOMAIN names_log[i].strs :
                         names_log[i].strs[p] = s => names_log[i].ids[p] = e.ids[1]

C18_Witness ==
    /\ Len(names_log) = MaxOps
    /\ names_log[1].op = "lookup"
    /\ Len(names_log[1].after) = 2
    /\ names_log[2].op = "query"
    /\ names_log[2].ids = <<None>>
    /\ names_log[MaxOps].op = "query"
    /\ names_log[MaxOps].strs = <<names_log[1].strs[2]>>
    /\ names_log[MaxOps].ids = <<1>>
\* C19: get_name_string raises ValueError for every integer id that is
\* negative or not below the length of the table, returns the stored string
\* for every other id, and leaves the table as it is.
C19_OutOfRangeIsValueError ==
    \A j \in LogOf("get_name_string") :
        LET e == names_log[j] IN
        /\ e.after = e.before
        /\ e.count_after = e.count_before
        /\ (e.num < 0 \/ e.num >= Len(e.before)) => e.exc = "ValueError"
        /\ (0 <= e.num /\ e.num < Len(e.before)) =>
               e.exc = "ok" /\ e.str = e.before[e.num + 1]
\* C20: every unique_error_codes(n) call returns n consecutive integers, all
\* greater than every code returned by an earlier call (so no code is
\* returned twice), and the first call returns 0..n-1.
C20_ErrorCodesFresh ==
    \A j \in LogOf("unique_error_codes") :
        LET e == names_log[j] IN
        /\ Len(e.ids) = e.num
        /\ \A k \in 1..(e.num - 1) : e.ids[k + 1] = e.ids[k] + 1
        /\ \A i \in LogOf("unique_error_codes") :
               i < j => \A a \in SeqRange(names_log[i].ids) : \A b \in SeqRange(e.ids) : a < b
        /\ (\A i \in LogOf("unique_error_codes") : i >= j) =>
               e.ids = [k \in 1..e.num |-> k - 1]

C20_Witness ==
    /\ LogOf("unique_error_codes") = 1..MaxOps
    /\ names_log[1].num = MaxCodes
    /\ names_log[MaxOps].num = MaxCodes
    /\ names_log[MaxOps].ids[1] >= MaxCodes
    /\ error_code_count = names_log[MaxOps].ids[MaxCodes] + 1
C27_ErrorAtEofReturns ==
    [][(pc = "err_955" /\ symbol.type = EOF) =>
          /\ error_count' = error_count + 1
          /\ Len(error_message_list') = Len(error_message_list) + 1
          /\ error_message_list'[Len(error_message_list')].kind = "ERROR"
          /\ end_of_file'
          /\ fpos' = fpos /\ symbol' = symbol /\ names_list' = names_list
          /\ stack # <<>> /\ pc' = Head(stack).pc /\ stack' = Tail(stack)]_vars

\* error() has returned from a call made at the end of a file that is not
\* empty: end_of_file is set and no search for a ';' has run into the end
C27_Witness ==
    /\ end_of_file /\ symbol.type = EOF /\ input # <<>>
    /\ pc \notin ErrorLabels
    /\ error_message_list # <<>>
    /\ \A i \in DOMAIN error_message_list : error_message_list[i].kind = "ERROR"

\* C32: whenever error() returns with the end of the file as the current
\* symbol, end_of_file is True: when the end was met in the search for a ';'
\* and when it is the symbol taken just behind a ';'.
C32_EofReturnSetsFlag ==
    [][(ErrorReturns /\ symbol'.type = EOF) => end_of_file']_vars

(***************************************************************************)
(* The search of error() for a place to resume                             *)
(***************************************************************************)
\* the symbols of the file that a scan reaches from position from: those up
\* to the end of the file or to a comment that is never closed
Reachable(inp, from) ==
    {i \in from..Len(inp) : \A j \in from..(i - 1) : inp[j] # UnclosedLexeme}

\* the positions at or after from that hold a symbol of the expected-next
\* list (by id or by kind) right behind a ';'
SyncPoints(inp, from, expect_next_list, nl) ==
    {i \in Reachable(inp, from) :
        /\ i > from /\ inp[i - 1] = ";"
        /\ LET g == get_symbol(inp, i, nl).sym
           IN g.id \in expect_next_list \/ g.type \in expect_next_list}

Min(set) == CHOOSE x \in set : \A y \in set : x <= y

\* C28: error() ends by returning, and it returns on the first symbol at or
\* after its entry symbol that follows a ';' and whose id or kind is in the
\* expected-next list; when the rest of the file has no such symbol it
\* returns on the end of the file
C28_FirstSyncPoint ==
    [][(pc \in ErrorLabels) =>
          (/\ pc' # "raised"
           /\ \/ Len(stack') >= Len(stack)
              \/ LET sync == SyncPoints(input, loc.entry, loc.expect_next_list,
                                        names_list')
                 IN IF sync # {}
                    THEN symbol'.type # EOF /\ symbol'.pos = Min(sync)
                    ELSE symbol'.type = EOF)]_vars

(***************************************************************************)
(* What a caller of error() listed.  A list is written with keyword and    *)
(* punctuation ids (DEVICES_ID, CLOSE_SQUARE, ...) and with the symbol     *)
(* kinds NAME and EOF; the parser passes it on as plain integers.          *)
(***************************************************************************)
\* the lists that the callers write with scanner.NAME in them
NameKindLists == {{NAME}, {NAME, CLOSE_SQUARE, MONITOR_ID, EOF},
                  {NAME, CLOSE_SQUARE, MONITOR_ID}}

NameKindListed(expect_next_list) == expect_next_list \in NameKindLists

\* the keyword and punctuation ids a caller wrote into its list: all but the
\* kinds EOF and NAME (no caller lists the keyword id, and MONITOR_ID stands
\* next to NAME in the two longer lists)
ListedIds(expect_next_list) ==
    IF expect_next_list = {NAME} THEN {} ELSE expect_next_list \ {EOF}

\* C29: when error() returns on a symbol other than EOF, that symbol is a
\* keyword or a punctuation mark whose id the caller listed, or a NAME when
\* the caller listed the kind NAME; so with {MONITORS, EOF} it never returns
\* on a NAME or a NUMBER, and with {NAME} never on the keyword MONITORS
C29_ResumeOnListedSymbol ==
    [][(pc \in ErrorLabels /\ Len(stack') < Len(stack) /\ symbol'.type # EOF) =>
          (\/ /\ symbol'.type \in {KEYWORD, PUNCTUATION}
              /\ symbol'.id \in ListedIds(loc.expect_next_list)
           \/ /\ symbol'.type = NAME
              /\ NameKindListed(loc.expect_next_list))]_vars

(***************************************************************************)
(* Numbers in the place of keywords and punctuation                        *)
(***************************************************************************)
\* the file is a well-formed one in which a number has taken the place of a
\* keyword or of a punctuation mark
NumberForSymbol ==
    /\ plan.fault.op = "rep"
    /\ plan.fault.tok \in DOMAIN NumberVal
    /\ BaseText(plan.base)[plan.fault.at] \in SeqRange(keywords) \cup SeqRange(puncs)

\* C30: a NUMBER is never taken for a keyword or a punctuation mark: a list
\* function is entered on a KEYWORD only, the search of error() for a ';'
\* ends on a PUNCTUATION symbol only, and a file with a number in the place
\* of a keyword or a punctuation mark is not accepted
C30_NumberNeverKeywordOrPunctuation ==
    [][/\ pc' \in {"dl_189", "cl_552", "ml_787"} => symbol'.type = KEYWORD
       /\ (pc = "err_1002" /\ symbol.id = SEMICOLON) => symbol.type = PUNCTUATION
       /\ (pc' = "done" /\ NumberForSymbol) => result' = <<FALSE>>]_vars

(***************************************************************************)
(* Scanner, character by character (src/scanner.py).  The file is a        *)
(* sequence of characters, read in binary mode: tell is the number of      *)
(* characters read so far, as f.tell(), and reading at the end of the file *)
(* gives "" and leaves tell where it is.                                   *)
(***************************************************************************)
MaxFileLen == 4

\* the characters of the files: two letters (so that the keyword "id" and
\* other names can be spelt), two digits, blank and newline, one punctuation
\* mark, the two comment characters and one invalid character
Letters == {"i", "d"}
Digits == {"1", "2"}
Alphabet == Letters \cup Digits \cup {" ", "\n", ";", "#", "/", "$"}

Files == UNION {[1..n -> Alphabet] : n \in 0..MaxFileLen}

\* str.isspace, str.isalpha, str.isdigit, str.isalnum on one character
isspace(c) == c \in {" ", "\n"}
isalpha(c) == c \in Letters
isdigit(c) == c \in Digits
isalnum(c) == isalpha(c) \/ isdigit(c)

\* the value of a digit, for int(n)
DigitVal == [c \in Digits |-> IF c = "1" THEN 1 ELSE 2]

\* class Symbol
Symbol(type, id, pos, line, linestart) ==
    [type |-> type, id |-> id, pos |-> pos, line |-> line, linestart |-> linestart]

\* Scanner.__init__ on an open file
NewScanner(file) ==
    [file |-> file, tell |-> 0, current_char |-> " ", linestart |-> 1,
     prev_linestart |-> 1, linecount |-> 1]

\* f.read(1)
read(sc) ==
    IF sc.tell < Len(sc.file)
    THEN [sc EXCEPT !.current_char = sc.file[sc.tell + 1], !.tell = @ + 1]
    ELSE [sc EXCEPT !.current_char = ""]

\* f.seek(offset)
seek(sc, offset) == [sc EXCEPT !.tell = offset]

\* Scanner._next
_next(sc) ==
    read(IF sc.current_char = "\n"
         THEN [sc EXCEPT !.prev_linestart = sc.linestart,
                         !.linestart = sc.tell + 1,
                         !.linecount = @ + 1]
         ELSE sc)

\* Scanner._next_non_ws
RECURSIVE _next_non_ws(_)
_next_non_ws(sc) ==
    LET a == _next(sc) IN IF isspace(a.current_char) THEN _next_non_ws(a) ELSE a

\* Scanner._invalid_current
_invalid_current(sc) ==
    LET char == sc.current_char
    IN /\ ~isspace(char) /\ ~isalnum(char)
       /\ char # "" /\ char \notin SeqRange(puncs)

\* a name loop that returns at the first invalid character
RECURSIVE _next_name_loop_stop_at_invalid(_, _, _)
_next_name_loop_stop_at_invalid(sc, name, inv) ==
    IF isalnum(sc.current_char) \/ _invalid_current(sc)
    THEN IF _invalid_current(sc)
         THEN [scanner |-> sc, name |-> name, inv |-> TRUE]
         ELSE _next_name_loop_stop_at_invalid(_next(sc), name \o sc.current_char, inv)
    ELSE [scanner |-> sc, name |-> name, inv |-> inv]

\* the loop of Scanner._next_name
RECURSIVE _next_name_loop(_, _, _)
_next_name_loop(sc, name, inv) ==
    IF isalnum(sc.current_char) \/ _invalid_current(sc)
    THEN _next_name_loop(_next(sc), name \o sc.current_char,
                         inv \/ _invalid_current(sc))
    ELSE [scanner |-> sc, name |-> name, inv |-> inv]

\* Scanner._next_name
_next_name(sc) == _next_name_loop(sc, "", FALSE)

\* the loop of Scanner._next_number: it returns at the first invalid
\* character, which stays the current character
RECURSIVE _next_number_loop(_, _, _)
_next_number_loop(sc, n, inv) ==
    IF isdigit(sc.current_char) \/ _invalid_current(sc)
    THEN IF _invalid_current(sc)
         THEN [scanner |-> sc, n |-> None, inv |-> TRUE]
         ELSE _next_number_loop(_next(sc), n * 10 + DigitVal[sc.current_char], inv)
    ELSE [scanner |-> sc, n |-> n, inv |-> inv]

\* Scanner._next_number
_next_number(sc) == _next_number_loop(sc, 0, FALSE)

\* a search for the end of a comment that gives up at the end of the line
RECURSIVE _skip_to_end_of_line(_, _)
_skip_to_end_of_line(sc, closing) ==
    IF sc.current_char = closing THEN [scanner |-> sc, end |-> FALSE]
    ELSE IF sc.current_char \in {"", "\n"} THEN [scanner |-> sc, end |-> TRUE]
    ELSE _skip_to_end_of_line(_next(sc), closing)

\* the two loops of Scanner._skip_comment: up to the closing character, or
\* to the end of the file
RECURSIVE _skip_to(_, _)
_skip_to(sc, closing) ==
    IF sc.current_char = closing THEN [scanner |-> sc, end |-> FALSE]
    ELSE IF sc.current_char = "" THEN [scanner |-> sc, end |-> TRUE]
    ELSE _skip_to(_next(sc), closing)

NoComment(sc) ==
    [scanner |-> sc, uc_comment |-> FALSE, uc_start |-> None, uc_line |-> None,
     uc_ls |-> None]

\* a _skip_comment that takes the place where the comment ends for its start
_skip_comment_start_at_end(sc) ==
    LET skipped(a) == NoComment(IF isspace(a.current_char) THEN _next_non_ws(a) ELSE a)
    IN IF sc.current_char = "#"
       THEN LET h == _skip_to(_next(sc), "#")
            IN IF h.end
               THEN [scanner |-> h.scanner, uc_comment |-> TRUE,
                     uc_start |-> h.scanner.tell,
                     uc_line |-> h.scanner.linecount, uc_ls |-> h.scanner.linestart]
               ELSE skipped(_next(h.scanner))
       ELSE IF sc.current_char = "/"
       THEN LET l == _skip_to(_next(sc), "\n")
            IN skipped(IF l.end THEN l.scanner ELSE _next(l.scanner))
       ELSE skipped(sc)

\* Scanner._skip_comment
_skip_comment(sc) ==
    LET skipped(a) == NoComment(IF isspace(a.current_char) THEN _next_non_ws(a) ELSE a)
    IN IF sc.current_char = "#"
       THEN LET h == _skip_to(_next(sc), "#")
            IN IF h.end
               THEN [scanner |-> h.scanner, uc_comment |-> TRUE, uc_start |-> sc.tell,
                     uc_line |-> sc.linecount, uc_ls |-> sc.linestart]
               ELSE skipped(_next(h.scanner))
       ELSE IF sc.current_char = "/"
       THEN LET l == _skip_to(_next(sc), "\n")
            IN skipped(IF l.end THEN l.scanner ELSE _next(l.scanner))
       ELSE skipped(sc)

\* the comment loop of Scanner.get_symbol
RECURSIVE _skip_comments(_)
_skip_comments(k) ==
    IF k.scanner.current_char \in {"#", "/"}
    THEN _skip_comments(_skip_comment(k.scanner))
    ELSE k

\* Scanner.get_symbol: the symbol, the scanner and the name table afterwards
Scanner_get_symbol(sc, nl) ==
    LET k == _skip_comments(NoComment(IF isspace(sc.current_char)
                                      THEN _next_non_ws(sc) ELSE sc))
        b == k.scanner
        here(type, id) == Symbol(type, id, b.tell, b.linecount, b.linestart)
    IN IF k.uc_comment
       THEN [sym |-> Symbol(UNCLOSED, None, k.uc_start, k.uc_line, k.uc_ls),
             scanner |-> b, names |-> nl]
       ELSE IF isalpha(b.current_char)
       THEN LET n == _next_name(b)
                l == lookup(nl, <<n.name>>)
            IN IF n.inv
               THEN [sym |-> here(INVALID_CHAR, None), scanner |-> n.scanner,
                     names |-> nl]
               ELSE [sym |-> here(IF n.name \in SeqRange(keywords)
                                  THEN KEYWORD ELSE NAME, l.ids[1]),
                     scanner |-> n.scanner, names |-> l.names]
       ELSE IF isdigit(b.current_char)
       THEN LET n == _next_number(b)
            IN [sym |-> here(IF n.inv THEN INVALID_CHAR ELSE NUMBER, n.n),
                scanner |-> n.scanner, names |-> nl]
       ELSE IF b.current_char \in SeqRange(puncs)
       THEN [sym |-> here(PUNCTUATION, query(nl, b.current_char)),
             scanner |-> _next(b), names |-> nl]
       ELSE IF b.current_char = ""
       THEN [sym |-> here(EOF, None), scanner |-> b, names |-> nl]
       ELSE [sym |-> here(INVALID_CHAR, None), scanner |-> _next(b), names |-> nl]

\* the loop of Scanner._get_error_line
RECURSIVE _get_error_line_loop(_, _)
_get_error_line_loop(sc, line) ==
    IF sc.current_char \in {"\n", ""}
    THEN [scanner |-> sc, line |-> line]
    ELSE _get_error_line_loop(_next(sc), line \o sc.current_char)

\* Scanner._get_error_line
_get_error_line(sc) == _get_error_line_loop(_next(sc), "")

\* " " * k
RECURSIVE Spaces(_)
Spaces(k) == IF k <= 0 THEN "" ELSE " " \o Spaces(k - 1)

\* a show_error that leaves the file where the error line ended
restore_without_seek(sc, saved) ==
    [sc EXCEPT !.linestart = saved.linestart,
               !.prev_linestart = saved.prev_linestart,
               !.linecount = saved.linecount,
               !.current_char = saved.current_char]

\* Scanner.show_error, lines 331-336: back to the settings saved on entry
restore(sc, saved) ==
    [sc EXCEPT !.linestart = saved.linestart,
               !.prev_linestart = saved.prev_linestart,
               !.linecount = saved.linecount,
               !.tell = saved.tell,
               !.current_char = saved.current_char]

\* a caret line that is one space short
caretline_short(k) == Spaces(k - 1) \o "^"

\* Scanner.show_error, lines 311 and 325: the caret under column k
caretline(k) == Spaces(k) \o "^"

\* a test that shows the line before for an unclosed comment as well
previous_line_shown_any_type(sym) == sym.linestart # 1

\* Scanner.show_error, line 307: there is a previous line and the symbol is
\* not an unclosed comment
previous_line_shown(sym) == sym.linestart # 1 /\ sym.type # UNCLOSED

\* Scanner.show_error: the message, the line number and the column, and the
\* scanner afterwards
Scanner_show_error(sc, sym) ==
    LET shown ==
          IF sym.pos = sym.linestart
          THEN IF previous_line_shown(sym)
               THEN LET e1 == _get_error_line(seek(sc, sc.prev_linestart - 1))
                        e2 == _get_error_line(seek(e1.scanner, sym.linestart - 1))
                    IN [scanner |-> e2.scanner, errorline |-> e1.line,
                        caretline |-> caretline(Len(e1.line)),
                        message |-> e1.line \o "\n" \o caretline(Len(e1.line))
                                    \o "\n" \o e2.line \o "\n",
                        line |-> sym.line - 1, col |-> Len(e1.line)]
               ELSE LET e == _get_error_line(seek(sc, sym.linestart - 1))
                    IN [scanner |-> e.scanner, errorline |-> e.line,
                        caretline |-> "^",
                        message |-> e.line \o "\n" \o "^",
                        line |-> sym.line, col |-> sym.pos - sym.linestart]
          ELSE LET e == _get_error_line(seek(sc, sym.linestart - 1))
               IN [scanner |-> e.scanner, errorline |-> e.line,
                   caretline |-> caretline(sym.pos - sym.linestart),
                   message |-> e.line \o "\n" \o caretline(sym.pos - sym.linestart),
                   line |-> sym.line, col |-> sym.pos - sym.linestart]
    IN [shown EXCEPT !.scanner = restore(shown.scanner, sc)]

(***************************************************************************)
(* The scanner as a machine: a client opens a file, asks for symbols and   *)
(* asks for the error text of symbols it was given                         *)
(***************************************************************************)
\* one call more than the file has characters and its end
MaxScans == MaxFileLen + 2

\* the parser is not running
ParserIdle(label) ==
    /\ input = <<>>
    /\ fpos = 1
    /\ symbol = Sym(None, None, 0)
    /\ error_count = 0
    /\ end_of_file = FALSE
    /\ unclosed_comment = FALSE
    /\ error_message_list = <<>>
    /\ pc = label
    /\ loc = [devices_done |-> FALSE, connections_done |-> FALSE,
              monitors_done |-> FALSE]
    /\ stack = <<>>
    /\ ret = ReturnsNone
    /\ result = <<>>
    /\ calls = <<>>
    /\ error_calls = 0
    /\ semantic_calls = 0
    /\ sem_budget = 0
    /\ plan = [base |-> [empty |-> TRUE, before |-> <<>>, nd |-> 0, tail |-> <<>>],
               fault |-> NoFault]

ScannerInit ==
    /\ \E file \in Files : scanner = NewScanner(file)
    /\ scanned = <<>>
    /\ last_shown = <<>>
    /\ names_list = InitNames
    /\ error_code_count = 0
    /\ names_log = <<>>
    /\ ParserIdle("scanner")

Scanner_GetSymbol ==
    /\ Len(scanned) < MaxScans
    /\ LET g == Scanner_get_symbol(scanner, names_list)
       IN /\ scanner' = g.scanner
          /\ names_list' = g.names
          /\ scanned' = Append(scanned, [sym |-> g.sym, before |-> scanner,
                                         after |-> g.scanner])
    /\ last_shown' = <<>>
    /\ UNCHANGED <<parser_vars, error_code_count, names_log>>

Scanner_ShowError ==
    /\ \E i \in 1..Len(scanned) :
          LET r == Scanner_show_error(scanner, scanned[i].sym)
          IN /\ scanner' = r.scanner
             /\ last_shown' = <<[index |-> i, symbol |-> scanned[i].sym,
                                 errorline |-> r.errorline, caretline |-> r.caretline,
                                 message |-> r.message, line |-> r.line, col |-> r.col,
                                 before |-> scanner]>>
    /\ UNCHANGED <<parser_vars, names_list, error_code_count, names_log, scanned>>

ScannerNext == Scanner_GetSymbol \/ Scanner_ShowError

ScannerSpec == ScannerInit /\ [][ScannerNext]_vars

(***************************************************************************)
(* Positions in a file, counted from the text itself                       *)
(***************************************************************************)
\* the file of the scanner
File == scanner.file

\* the newlines before the character with 1-based offset o
NewlinesBefore(file, o) == {j \in 1..(o - 1) : j <= Len(file) /\ file[j] = "\n"}

Max(set) == CHOOSE x \in set : \A y \in set : x >= y

\* the line of that character, lines counted from 1
LineOf(file, o) == 1 + Cardinality(NewlinesBefore(file, o))

\* the 1-based offset of the first character of its line
LineStartOf(file, o) ==
    IF NewlinesBefore(file, o) = {} THEN 1 ELSE Max(NewlinesBefore(file, o)) + 1

\* the file has one '#', standing where a symbol may start, and no '/'
OneOpenComment(file) ==
    /\ Cardinality({j \in DOMAIN file : file[j] = "#"}) = 1
    /\ \A j \in DOMAIN file : file[j] # "/"
    /\ \A j \in DOMAIN file :
          (file[j] = "#" /\ j > 1) => file[j - 1] \in {" ", "\n", ";"}

\* C22: a symbol of type UNCLOSED has no id and carries the position, the
\* line and the line start of a '#' after which the file has no other '#';
\* it is returned once, and only EOF follows it.  A file whose only '#'
\* stands at a symbol boundary gives such a symbol before its EOF.
C22_UnclosedCommentSymbol ==
    /\ \A i \in DOMAIN scanned :
          LET y == scanned[i].sym
          IN y.type = UNCLOSED =>
                /\ y.id = None
                /\ y.pos \in DOMAIN File /\ File[y.pos] = "#"
                /\ \A j \in (y.pos + 1)..Len(File) : File[j] # "#"
                /\ y.line = LineOf(File, y.pos)
                /\ y.linestart = LineStartOf(File, y.pos)
                /\ \A j \in DOMAIN scanned :
                      /\ j # i => scanned[j].sym.type # UNCLOSED
                      /\ j > i => scanned[j].sym.type = EOF
    /\ \A i \in DOMAIN scanned :
          (scanned[i].sym.type = EOF /\ OneOpenComment(File)) =>
             \E j \in 1..(i - 1) :
                /\ scanned[j].sym.type = UNCLOSED
                /\ File[scanned[j].sym.pos] = "#"

\* an unclosed comment on the second line, behind another symbol, has been
\* reported and the end of the file after it
C22_Witness ==
    \E i \in DOMAIN scanned :
       /\ i > 1 /\ i < Len(scanned)
       /\ scanned[i].sym.type = UNCLOSED
       /\ scanned[i].sym.line = 2
       /\ scanned[i].sym.pos > scanned[i].sym.linestart

(***************************************************************************)
(* show_error                                                              *)
(***************************************************************************)
\* C23: a call of show_error leaves the scanner as it found it: the file
\* position, current_char, linecount, linestart and prev_linestart are the
\* same afterwards, and so is the name table; the next get_symbol therefore
\* gives the symbol it would have given without the call
C23_ShowErrorRestoresScanner ==
    [][last_shown' # <<>> =>
          /\ scanner'.tell = scanner.tell
          /\ scanner'.current_char = scanner.current_char
          /\ scanner'.linecount = scanner.linecount
          /\ scanner'.linestart = scanner.linestart
          /\ scanner'.prev_linestart = scanner.prev_linestart
          /\ scanner'.file = scanner.file
          /\ names_list' = names_list
          /\ Scanner_get_symbol(scanner', names_list')
                = Scanner_get_symbol(scanner, names_list)]_vars

\* show_error was called for a symbol of the first line while the scanner
\* stood on the second line, before the end of the file
C23_Witness ==
    /\ last_shown # <<>>
    /\ last_shown[1].symbol.line = 1
    /\ scanner.linecount = 2
    /\ scanner.current_char # ""
    /\ last_shown[1].before = scanner

\* where a symbol starts: the end of the file for EOF
StartOf(y) == IF y.type = EOF THEN Len(File) + 1 ELSE y.pos

\* the text of the file from offset o to the end of its line
RECURSIVE TextFrom(_, _)
TextFrom(file, o) ==
    IF o > Len(file) \/ file[o] = "\n" THEN "" ELSE file[o] \o TextFrom(file, o + 1)

\* the text of line L
LineText(file, L) ==
    TextFrom(file, CHOOSE o \in 1..(Len(file) + 1) :
                      LineOf(file, o) = L /\ LineStartOf(file, o) = o)

\* the symbol's first character is one its type can start with
StartsRight(y) ==
    CASE y.type = EOF -> TRUE
      [] y.type \in {NAME, KEYWORD} -> isalpha(File[y.pos])
      [] y.type = NUMBER -> isdigit(File[y.pos])
      [] y.type = PUNCTUATION -> File[y.pos] \in SeqRange(puncs)
      [] y.type = UNCLOSED -> File[y.pos] = "#"
      [] y.type = INVALID_CHAR -> isalnum(File[y.pos]) \/ File[y.pos] = "$"

IsInvalidChar(c) == ~isspace(c) /\ ~isalnum(c) /\ c \notin SeqRange(puncs)

\* the last offset of the longest run of characters of one kind from offset o
RECURSIVE RunEnd(_, _, _)
RunEnd(file, o, kind) ==
    IF o + 1 <= Len(file) /\ file[o + 1] \in kind THEN RunEnd(file, o + 1, kind) ELSE o

\* the characters of a number lexeme and those of a name lexeme
InNumberRun == {c \in Alphabet : isdigit(c) \/ IsInvalidChar(c)}
InNameRun == {c \in Alphabet : isalnum(c) \/ IsInvalidChar(c)}

\* the decimal value of the digits from offset o to offset e
RECURSIVE DecimalValue(_, _, _)
DecimalValue(file, o, e) ==
    IF e < o THEN 0 ELSE DecimalValue(file, o, e - 1) * 10 + DigitVal[file[e]]

\* the scanner stands right behind offset e: the character after it is the
\* current one, or the file has ended there
StandsBehind(sc, e) ==
    IF e < Len(sc.file) THEN sc.tell = e + 1 /\ sc.current_char = sc.file[e + 1]
    ELSE sc.tell = Len(sc.file) /\ sc.current_char = ""

\* the calls of get_symbol that began a lexeme with a character of one kind:
\* the first symbol of the file, or one that starts behind white space or
\* behind a punctuation mark
LexemeStarts(first) ==
    {i \in DOMAIN scanned :
        LET y == scanned[i].sym
        IN /\ y.type # EOF
           /\ File[y.pos] \in first
           /\ y.pos = 1 \/ isspace(File[y.pos - 1]) \/ File[y.pos - 1] \in SeqRange(puncs)}

\* C25: a lexeme that starts with a digit is the longest run of digits and
\* invalid characters.  With an invalid character in it, one call of
\* get_symbol returns it as one INVALID_CHAR symbol without id and leaves the
\* scanner behind the run, so that the next symbol starts after it; without,
\* the symbol is a NUMBER whose id is the decimal value of the digits.
C25_NumberLexeme ==
    \A i \in LexemeStarts(Digits) :
       LET y == scanned[i].sym
           e == RunEnd(File, y.pos, InNumberRun)
       IN /\ StandsBehind(scanned[i].after, e)
          /\ i < Len(scanned) => StartOf(scanned[i + 1].sym) > e
          /\ IF \E j \in y.pos..e : IsInvalidChar(File[j])
             THEN y.type = INVALID_CHAR /\ y.id = None
             ELSE y.type = NUMBER /\ y.id = DecimalValue(File, y.pos, e)

\* the characters of the file from offset o to offset e, as one string
RECURSIVE Text(_, _, _)
Text(file, o, e) == IF e < o THEN "" ELSE Text(file, o, e - 1) \o file[e]

\* C26: a lexeme that starts with a letter is the longest run of letters,
\* digits and invalid characters, taken by one call of get_symbol.  It is an
\* INVALID_CHAR symbol without id exactly when an invalid character is in the
\* run; otherwise it is a KEYWORD exactly when its text is one of the seven
\* keywords and a NAME for any other text, and its id is the id the name
\* table has for the text.
C26_NameLexeme ==
    \A i \in LexemeStarts(Letters) :
       LET y == scanned[i].sym
           e == RunEnd(File, y.pos, InNameRun)
           text == Text(File, y.pos, e)
       IN /\ StandsBehind(scanned[i].after, e)
          /\ i < Len(scanned) => StartOf(scanned[i + 1].sym) > e
          /\ y.type = INVALID_CHAR <=> \E j \in y.pos..e : IsInvalidChar(File[j])
          /\ y.type \in {INVALID_CHAR, KEYWORD, NAME}
          /\ y.type = INVALID_CHAR => y.id = None
          /\ y.type # INVALID_CHAR =>
                /\ y.type = KEYWORD <=>
                      text \in {"CIRCUIT", "DEVICES", "CONNECTIONS", "MONITORS",
                                "id", "kind", "qual"}
                /\ y.id = query(names_list, text)
                /\ get_name_string(names_list, y.id).str = text
                /\ \A j \in DOMAIN names_list : names_list[j] = text => j = y.id + 1

\* a run of a letter, an invalid character and a letter was returned as one
\* INVALID_CHAR symbol, and the symbol after it too
C26_Witness ==
    \E i \in LexemeStarts(Letters) :
       /\ RunEnd(File, scanned[i].sym.pos, InNameRun) = scanned[i].sym.pos + 2
       /\ scanned[i].sym.type = INVALID_CHAR
       /\ isalpha(File[scanned[i].sym.pos + 2])
       /\ i < Len(scanned)
       /\ scanned[i + 1].sym.type = PUNCTUATION

(***************************************************************************)
(* The end of the file, asked for again                                    *)
(***************************************************************************)
\* the calls of get_symbol that returned EOF or UNCLOSED, by their place
EndCalls == {i \in DOMAIN scanned : scanned[i].sym.type \in {EOF, UNCLOSED}}

C36_ColumnNeverNegative ==
    /\ \A i \in DOMAIN scanned :
           /\ scanned[i].sym.line >= 1
           /\ scanned[i].sym.pos >= scanned[i].sym.linestart
    /\ \A i \in DOMAIN last_shown : last_shown[i].col >= 0

(***************************************************************************)
(* show_error for a symbol at the start of its line                        *)
(***************************************************************************)
\* the symbol stands at the first column of its line in the file
AtFirstColumn(y) == StartOf(y) = LineStartOf(File, StartOf(y))

CommentEnd(file, p) ==
    IF file[p] = "#"
    THEN LET closers == {q \in (p + 1)..Len(file) : file[q] = "#"}
         IN IF closers = {} THEN 0 ELSE Min(closers)
    ELSE LET ends == {q \in p..Len(file) : q = Len(file) \/ file[q + 1] = "\n"}
         IN Min(ends)

RECURSIVE CommentsFrom(_, _)
\* the comments of a file from offset p on, each as <<first, last>>
CommentsFrom(file, p) ==
    IF p > Len(file) THEN {}
    ELSE IF file[p] \in {"#", "/"}
    THEN LET e == CommentEnd(file, p)
         IN IF e = 0 THEN {} ELSE {<<p, e>>} \cup CommentsFrom(file, e + 1)
    ELSE CommentsFrom(file, p + 1)

\* the file with the characters first..last replaced by one space
Blanked(file, first, last) ==
    SubSeq(file, 1, first - 1) \o <<" ">> \o SubSeq(file, last + 1, Len(file))

RECURSIVE SymbolsFrom(_, _, _)
\* the (type, id) pairs of at most n + 1 calls of get_symbol, up to EOF
SymbolsFrom(sc, nl, n) ==
    LET g == Scanner_get_symbol(sc, nl)
        this == <<[type |-> g.sym.type, id |-> g.sym.id]>>
    IN IF g.sym.type = EOF \/ n = 0 THEN this
       ELSE this \o SymbolsFrom(g.scanner, g.names, n - 1)

\* the symbols of a whole file, scanned from a new scanner
AllSymbols(file) == SymbolsFrom(NewScanner(file), InitNames, Len(file) + 1)

\* the (type, id) pairs get_symbol has returned so far
Returned_symbols ==
    [i \in DOMAIN scanned |-> [type |-> scanned[i].sym.type, id |-> scanned[i].sym.id]]

\* get_symbol has just returned the first EOF of the file
ScanComplete ==
    /\ scanned # <<>>
    /\ \A i \in DOMAIN scanned : scanned[i].sym.type = EOF <=> i = Len(scanned)

\* C34: a comment is white space.  When a file has been scanned to its end,
\* the (type, id) pairs returned are those of the file in which any one
\* closed '#...#' comment or '/' line comment is replaced by one space, also
\* when the comment stands right behind a name or number and when comments
\* follow one another.
C34_CommentIsWhitespace ==
    ScanComplete =>
        \A c \in CommentsFrom(File, 1) :
            Returned_symbols = AllSymbols(Blanked(File, c[1], c[2]))


====
